---- MODULE Spec2Model ----
(***************************************************************************)
(* Model of the meteobe extractors: the Meteoblue extractor                *)
(* (src/src/meteobe/meteoblue_data_extractor.py) and the CE Hub script     *)
(* (src/cehub_best_domains_trial.py).                                      *)
(*                                                                         *)
(* Python values are modelled as follows: a str that the code only         *)
(* compares or passes on is a TLA+ string; a str that the code builds or   *)
(* takes apart is a sequence of one-character strings; a dict is a         *)
(* function; a list is a sequence; None is the value None.                 *)
(***************************************************************************)
EXTENDS Integers, Sequences, FiniteSets, TLC

\* ------------------------------------------------------------------------
\* Module constants of the extractors
\* ------------------------------------------------------------------------
None == "<None>"

DOMAIN_NEMSGLOBAL == "NEMSGLOBAL"
DOMAIN_ERA5 == "ERA5"
DOMAIN_SOILGRIDS2 == "SOILGRIDS2"

DEFAULT == "default"

TEMP == 11
PRECIPITATION == 61
HUMIDITY == 52
WIND_SPEED == 32
WIND_DIRECTION == 735
CLOUDS_TOTAL == 71
CLOUDS_HIGH == 75
CLOUDS_MEDIUM == 74
CLOUDS_LOW == 73
SUNSHINE_DURATION == 191
SHORTWAVE_RADIATION_TOTAL == 204
SHORTWAVE_RADIATION_DIRECT == 258
SHORTWAVE_RADIATION_DIFFUSE == 256
EVAPOTRANSPIRATION == 261
SOIL_TEMP == 85
SOIL_MOISTURE == 144
VAPPRESS_DEFICIT == 56
UV_MEAN == 721

LVL_2M_ELV_CORRECTED == "2 m elevation corrected"
LVL_2M_ABV_GND == "2 m above gnd"
LVL_SFC == "sfc"
LVL_HIGH_CLD_LAY == "high cld lay"
LVL_MID_CLD_LAY == "mid cld lay"
LVL_LOW_CLD_LAY == "low cld lay"
LVL_10CM_DOWN == "0-10 cm down"
LVL_10M_ABV_GND == "10 m above gnd"

BULK_DENSITY == 808
CATION_EXCHANGE_CAPACITY == 809
CLAY_CONTENT_MASS_FRACTION == 803
COARSE_FRAGMENTS_VOLUMETRIC_FRACTION == 807
ORGANIC_CARBON_CONTENT == 811
ORGANIC_CARBON_DENSITY == 838
ORGANIC_CARBON_STOCKS == 837
SAND_CONTENT_MASS_FRACTION == 805
SILT_CONTENT_MASS_FRACTION == 804
TOTAL_NITROGEN_CONTENT == 817
PH_IN_H20 == 812

LVL_AGGREGATE == "aggregated"
LVL_30 == "0-30 cm"
START_DEPTH_0 == 0
END_DEPTH_30 == 30
END_DEPTH_60 == 60

TIME_RESOLUTION_DAILY == "daily"
TIME_RESOLUTION_HOURLY == "hourly"

MAX == "max"
MIN == "min"
MEAN == "mean"
SUM == "sum"

\* ------------------------------------------------------------------------
\* Python helpers
\* ------------------------------------------------------------------------
\* str.upper() of DEFAULT: the key the domain maps are asked for.
DEFAULT_upper == "DEFAULT"

\* dict.get(key, default)
DictGet(d, key, default) == IF key \in DOMAIN d THEN d[key] ELSE default

\* A Python str that the code builds or takes apart, as the sequence of its
\* characters: the table gives the characters of every such literal used here.
Chars ==
    "" :> <<>> @@
    "aggregated" :> <<"a", "g", "g", "r", "e", "g", "a", "t", "e", "d">> @@
    "0-30 cm" :> <<"0", "-", "3", "0", " ", "c", "m">> @@
    "Dates" :> <<"D", "a", "t", "e", "s">> @@
    "None" :> <<"N", "o", "n", "e">> @@
    "id" :> <<"i", "d">> @@
    "lat" :> <<"l", "a", "t">> @@
    "lon" :> <<"l", "o", "n">> @@
    "mean" :> <<"m", "e", "a", "n">> @@
    "max" :> <<"m", "a", "x">> @@
    "sum" :> <<"s", "u", "m">> @@
    "C" :> <<"C">> @@
    "%" :> <<"%">> @@
    "km/h" :> <<"k", "m", "/", "h">> @@
    "deg" :> <<"d", "e", "g">> @@
    "pH" :> <<"p", "H">> @@
    "Temperature" :> <<"T", "e", "m", "p", "e", "r", "a", "t", "u", "r", "e">> @@
    "Wind Speed" :> <<"W", "i", "n", "d", " ", "S", "p", "e", "e", "d">> @@
    "Wind Direction" :> <<"W", "i", "n", "d", " ", "D", "i", "r", "e", "c", "t", "i", "o", "n">> @@
    "Clay content" :> <<"C", "l", "a", "y", " ", "c", "o", "n", "t", "e", "n", "t">> @@
    "Organic carbon stocks" :> <<"O", "r", "g", "a", "n", "i", "c", " ", "c", "a", "r", "b", "o", "n", " ", "s", "t", "o", "c", "k", "s">> @@
    "pH in H2O" :> <<"p", "H", " ", "i", "n", " ", "H", "2", "O">> @@
    "10 m above gnd" :> <<"1", "0", " ", "m", " ", "a", "b", "o", "v", "e", " ", "g", "n", "d">> @@
    "2 m elevation corrected" :> <<"2", " ", "m", " ", "e", "l", "e", "v", "a", "t", "i", "o", "n", " ", "c", "o", "r", "r", "e", "c", "t", "e", "d">> @@
    "Temperature_(Mean)_(C)" :> <<"T", "e", "m", "p", "e", "r", "a", "t", "u", "r", "e", "_", "(", "M", "e", "a", "n", ")", "_", "(", "C", ")">> @@
    "Temperature_(Max)_(C)" :> <<"T", "e", "m", "p", "e", "r", "a", "t", "u", "r", "e", "_", "(", "M", "a", "x", ")", "_", "(", "C", ")">> @@
    "Wind_Speed_(Mean)_(km/h)" :> <<"W", "i", "n", "d", "_", "S", "p", "e", "e", "d", "_", "(", "M", "e", "a", "n", ")", "_", "(", "k", "m", "/", "h", ")">> @@
    "Clay_content_(0-30)_(%)" :> <<"C", "l", "a", "y", "_", "c", "o", "n", "t", "e", "n", "t", "_", "(", "0", "-", "3", "0", ")", "_", "(", "%", ")">> @@
    "Clay_content_(0-60)_(%)" :> <<"C", "l", "a", "y", "_", "c", "o", "n", "t", "e", "n", "t", "_", "(", "0", "-", "6", "0", ")", "_", "(", "%", ")">> @@
    "Organic_carbon_stocks_(0-30 cm)_(%)" :> <<"O", "r", "g", "a", "n", "i", "c", "_", "c", "a", "r", "b", "o", "n", "_", "s", "t", "o", "c", "k", "s", "_", "(", "0", "-", "3", "0", " ", "c", "m", ")", "_", "(", "%", ")">> @@
    "20200101T0000" :> <<"2", "0", "2", "0", "0", "1", "0", "1", "T", "0", "0", "0", "0">> @@
    "20200102T0000" :> <<"2", "0", "2", "0", "0", "1", "0", "2", "T", "0", "0", "0", "0">> @@
    "T0000" :> <<"T", "0", "0", "0", "0">> @@
    "none" :> <<"n", "o", "n", "e">> @@
    "Wind_Direction_(10 m above gnd)_(deg)" :> <<"W", "i", "n", "d", "_", "D", "i", "r", "e", "c", "t", "i", "o", "n", "_", "(", "1", "0", " ", "m", " ", "a", "b", "o", "v", "e", " ", "g", "n", "d", ")", "_", "(", "d", "e", "g", ")">> @@
    "Wind_Direction_(None)_(deg)" :> <<"W", "i", "n", "d", "_", "D", "i", "r", "e", "c", "t", "i", "o", "n", "_", "(", "N", "o", "n", "e", ")", "_", "(", "d", "e", "g", ")">> @@
    "_(" :> <<"_", "(">> @@
    ")_(" :> <<")", "_", "(">> @@
    ")" :> <<")">> @@
    "-" :> <<"-">> @@
    " " :> <<" ">> @@
    "_" :> <<"_">> @@
    "ERA5" :> <<"E", "R", "A", "5">> @@
    "era5" :> <<"e", "r", "a", "5">> @@
    "NEMS4" :> <<"N", "E", "M", "S", "4">> @@
    "nems4" :> <<"n", "e", "m", "s", "4">> @@
    "BR" :> <<"B", "R">> @@
    "US" :> <<"U", "S">> @@
    "DEFAULT" :> <<"D", "E", "F", "A", "U", "L", "T">> @@
    "BR,US" :> <<"B", "R", ",", "U", "S">> @@
    "US,DEFAULT" :> <<"U", "S", ",", "D", "E", "F", "A", "U", "L", "T">> @@
    "," :> <<",">>

LowerLetters == <<"a", "b", "c", "d", "e", "f", "g", "h", "i", "j", "k", "l", "m", "n", "o", "p", "q", "r", "s", "t", "u", "v", "w", "x", "y", "z">>
UpperLetters == <<"A", "B", "C", "D", "E", "F", "G", "H", "I", "J", "K", "L", "M", "N", "O", "P", "Q", "R", "S", "T", "U", "V", "W", "X", "Y", "Z">>
Digits == <<"0", "1", "2", "3", "4", "5", "6", "7", "8", "9">>

\* str.upper() of a one-character str.
PyUpper(c) ==
    IF \E i \in 1..26 : LowerLetters[i] = c
    THEN UpperLetters[CHOOSE i \in 1..26 : LowerLetters[i] = c]
    ELSE c

\* str.lower() of a one-character str.
PyLower(c) ==
    IF \E i \in 1..26 : UpperLetters[i] = c
    THEN LowerLetters[CHOOSE i \in 1..26 : UpperLetters[i] = c]
    ELSE c

\* str.split(sep) for a one-character sep: the pieces between the
\* separators, empty pieces included; '' gives [''].
RECURSIVE PySplit(_, _)
PySplit(s, sep) ==
    IF \A i \in 1..Len(s) : s[i] # sep THEN << s >>
    ELSE LET first == CHOOSE i \in 1..Len(s) : s[i] = sep /\ \A j \in 1..(i - 1) : s[j] # sep
         IN  << SubSeq(s, 1, first - 1) >> \o PySplit(SubSeq(s, first + 1, Len(s)), sep)

\* str.replace(old, new) for one-character old and new.
PyReplace(s, old, new) == [i \in 1..Len(s) |-> IF s[i] = old THEN new ELSE s[i]]

\* str(n) of an int.
RECURSIVE NatToStr(_)
NatToStr(n) == IF n < 10 THEN <<Digits[n + 1]>> ELSE NatToStr(n \div 10) \o <<Digits[(n % 10) + 1]>>

PyStrInt(n) == IF n < 0 THEN <<"-">> \o NatToStr(-n) ELSE NatToStr(n)

\* d[key] = value on a dict.
DictSet(d, key, value) == [k \in DOMAIN d \cup {key} |-> IF k = key THEN value ELSE d[k]]

\* A value stored under a data column is a number or a list; the two are
\* told apart by a tag, since a Python number never equals a list.
JsonNum(n) == [num |-> n]
JsonList(l) == [list |-> l]

\* The outcome of a call: it returned a value, or it raised.
Returned(value) == [raised |-> FALSE, value |-> value]
Raised == [raised |-> TRUE, value |-> None]

\* ------------------------------------------------------------------------
\* Query builders (identical in both scripts)
\* ------------------------------------------------------------------------
\* Mutant: the default entry is asked first and the country code is the fallback.
ResolveDomain_DefaultFirst(country_code, domains) ==
    DictGet(domains, DEFAULT_upper, DictGet(domains, country_code, None))

\* One `domains.get(country_code, domains.get(DEFAULT.upper()))`.
ResolveDomain(country_code, domains) ==
    DictGet(domains, country_code, DictGet(domains, DEFAULT_upper, None))

Code3(code, level, aggregation) ==
    [code |-> code, level |-> level, aggregation |-> aggregation]

Code2(code, level) == [code |-> code, level |-> level]

NemsGlobalBlock ==
    [domain |-> DOMAIN_NEMSGLOBAL,
     timeResolution |-> TIME_RESOLUTION_DAILY,
     codes |-> << Code3(HUMIDITY, LVL_2M_ABV_GND, MAX),
                  Code3(HUMIDITY, LVL_2M_ABV_GND, MIN),
                  Code3(HUMIDITY, LVL_2M_ABV_GND, MEAN),
                  Code3(CLOUDS_TOTAL, LVL_SFC, MEAN),
                  Code3(CLOUDS_HIGH, LVL_HIGH_CLD_LAY, MEAN),
                  Code3(CLOUDS_MEDIUM, LVL_MID_CLD_LAY, MEAN),
                  Code3(CLOUDS_LOW, LVL_LOW_CLD_LAY, MEAN),
                  Code3(SUNSHINE_DURATION, LVL_SFC, SUM),
                  Code3(SHORTWAVE_RADIATION_TOTAL, LVL_SFC, MEAN),
                  Code3(SHORTWAVE_RADIATION_DIRECT, LVL_SFC, MEAN),
                  Code3(SHORTWAVE_RADIATION_DIFFUSE, LVL_SFC, MEAN),
                  Code3(EVAPOTRANSPIRATION, LVL_SFC, SUM),
                  Code3(SOIL_TEMP, LVL_10CM_DOWN, MAX),
                  Code3(SOIL_TEMP, LVL_10CM_DOWN, MIN),
                  Code3(SOIL_TEMP, LVL_10CM_DOWN, MEAN),
                  Code3(SOIL_MOISTURE, LVL_10CM_DOWN, MAX),
                  Code3(SOIL_MOISTURE, LVL_10CM_DOWN, MIN),
                  Code3(SOIL_MOISTURE, LVL_10CM_DOWN, MEAN),
                  Code3(VAPPRESS_DEFICIT, LVL_2M_ABV_GND, MAX),
                  Code3(VAPPRESS_DEFICIT, LVL_2M_ABV_GND, MIN),
                  Code3(VAPPRESS_DEFICIT, LVL_2M_ABV_GND, MEAN) >>]

TemperatureBlock(domain_temp) ==
    [domain |-> domain_temp,
     timeResolution |-> TIME_RESOLUTION_DAILY,
     codes |-> << Code3(TEMP, LVL_2M_ELV_CORRECTED, MAX),
                  Code3(TEMP, LVL_2M_ELV_CORRECTED, MIN),
                  Code3(TEMP, LVL_2M_ELV_CORRECTED, MEAN) >>]

PrecipitationBlock(domain_precipitation) ==
    [domain |-> domain_precipitation,
     timeResolution |-> TIME_RESOLUTION_DAILY,
     codes |-> << Code3(PRECIPITATION, LVL_SFC, SUM) >>]

\* Mutant: the wind-direction entry is given an aggregation like its neighbours.
WindBlock_DirectionAggregated(domain_wind) ==
    [domain |-> domain_wind,
     timeResolution |-> TIME_RESOLUTION_DAILY,
     codes |-> << Code3(WIND_SPEED, LVL_10M_ABV_GND, MAX),
                  Code3(WIND_SPEED, LVL_10M_ABV_GND, MIN),
                  Code3(WIND_SPEED, LVL_10M_ABV_GND, MEAN),
                  Code3(WIND_DIRECTION, LVL_10M_ABV_GND, MEAN) >>]

WindBlock(domain_wind) ==
    [domain |-> domain_wind,
     timeResolution |-> TIME_RESOLUTION_DAILY,
     codes |-> << Code3(WIND_SPEED, LVL_10M_ABV_GND, MAX),
                  Code3(WIND_SPEED, LVL_10M_ABV_GND, MIN),
                  Code3(WIND_SPEED, LVL_10M_ABV_GND, MEAN),
                  Code2(WIND_DIRECTION, LVL_10M_ABV_GND) >>]

Era5Block ==
    [domain |-> DOMAIN_ERA5,
     gapFillDomain |-> None,
     timeResolution |-> TIME_RESOLUTION_HOURLY,
     codes |-> << Code2(UV_MEAN, LVL_SFC) >>,
     transformations |-> << [type |-> "aggregateDaily", aggregation |-> MEAN] >>]

\* The three locals domain_precipitation, domain_temp, domain_wind.
ResolvedDomains(country_code, precipitation_domains, temperature_domains, wind_domains) ==
    [domain_precipitation |-> ResolveDomain(country_code, precipitation_domains),
     domain_temp |-> ResolveDomain(country_code, temperature_domains),
     domain_wind |-> ResolveDomain(country_code, wind_domains)]

\* Mutant: the UV block takes the temperature family's resolved source.
WeatherQueryOf_Era5FromTemp(resolved) ==
    << NemsGlobalBlock,
       TemperatureBlock(resolved.domain_temp),
       PrecipitationBlock(resolved.domain_precipitation),
       WindBlock(resolved.domain_wind),
       [Era5Block EXCEPT !.domain = resolved.domain_temp] >>

\* Mutant: the temperature and precipitation sources are swapped.
WeatherQueryOf_Swapped(resolved) ==
    << NemsGlobalBlock,
       TemperatureBlock(resolved.domain_precipitation),
       PrecipitationBlock(resolved.domain_temp),
       WindBlock(resolved.domain_wind),
       Era5Block >>

WeatherQueryOf(resolved) ==
    << NemsGlobalBlock,
       TemperatureBlock(resolved.domain_temp),
       PrecipitationBlock(resolved.domain_precipitation),
       WindBlock(resolved.domain_wind),
       Era5Block >>

build_weather_data_query_best_dataset(country_code, precipitation_domains, temperature_domains, wind_domains) ==
    WeatherQueryOf(ResolvedDomains(country_code, precipitation_domains, temperature_domains, wind_domains))

DepthCode(code, start_depth, end_depth) ==
    [code |-> code, level |-> LVL_AGGREGATE,
     startDepth |-> start_depth, endDepth |-> end_depth]

\* Mutant: organic carbon stocks is depth-scaled like the other ten codes.
build_soil_query_StocksScaled(start_depth, end_depth) ==
    [domain |-> DOMAIN_SOILGRIDS2,
     codes |-> << DepthCode(BULK_DENSITY, start_depth, end_depth),
                  DepthCode(CATION_EXCHANGE_CAPACITY, start_depth, end_depth),
                  DepthCode(CLAY_CONTENT_MASS_FRACTION, start_depth, end_depth),
                  DepthCode(COARSE_FRAGMENTS_VOLUMETRIC_FRACTION, start_depth, end_depth),
                  DepthCode(ORGANIC_CARBON_CONTENT, start_depth, end_depth),
                  DepthCode(ORGANIC_CARBON_DENSITY, start_depth, end_depth),
                  DepthCode(ORGANIC_CARBON_STOCKS, start_depth, end_depth),
                  DepthCode(SAND_CONTENT_MASS_FRACTION, start_depth, end_depth),
                  DepthCode(SILT_CONTENT_MASS_FRACTION, start_depth, end_depth),
                  DepthCode(TOTAL_NITROGEN_CONTENT, start_depth, end_depth),
                  DepthCode(PH_IN_H20, start_depth, end_depth) >>]

build_soil_query(start_depth, end_depth) ==
    [domain |-> DOMAIN_SOILGRIDS2,
     codes |-> << DepthCode(BULK_DENSITY, start_depth, end_depth),
                  DepthCode(CATION_EXCHANGE_CAPACITY, start_depth, end_depth),
                  DepthCode(CLAY_CONTENT_MASS_FRACTION, start_depth, end_depth),
                  DepthCode(COARSE_FRAGMENTS_VOLUMETRIC_FRACTION, start_depth, end_depth),
                  DepthCode(ORGANIC_CARBON_CONTENT, start_depth, end_depth),
                  DepthCode(ORGANIC_CARBON_DENSITY, start_depth, end_depth),
                  Code2(ORGANIC_CARBON_STOCKS, LVL_30),
                  DepthCode(SAND_CONTENT_MASS_FRACTION, start_depth, end_depth),
                  DepthCode(SILT_CONTENT_MASS_FRACTION, start_depth, end_depth),
                  DepthCode(TOTAL_NITROGEN_CONTENT, start_depth, end_depth),
                  DepthCode(PH_IN_H20, start_depth, end_depth) >>]

\* ------------------------------------------------------------------------
\* Response flatteners
\* ------------------------------------------------------------------------
\* A value that may be None is a sequence: << >> for None, <<v>> for v.
\* A str field that holds None (a JSON null) is NoneStr.
NoneStr == <<None>>

\* str(x) of a str or of None.
PyStr(x) == IF x = NoneStr THEN Chars["None"] ELSE x

DATES == Chars["Dates"]

SetMax(S) == CHOOSE x \in S : \A y \in S : y <= x

\* MeteoBlueConnector.lookup_variable_by_code: the loop keeps the variable of
\* the last entry with the code, and '' when there is none.
lookup_variable_by_code(codes_lst, code) ==
    LET hits == {i \in 1..Len(codes_lst) : codes_lst[i].code = code}
    IN  IF hits = {} THEN Chars[""] ELSE codes_lst[SetMax(hits)].variable

\* list(range(start, end, stride)); range raises on a zero stride.
PyRange(start, end, stride) ==
    LET count == IF stride > 0
                 THEN (IF end > start THEN (end - start + stride - 1) \div stride ELSE 0)
                 ELSE (IF end < start THEN (start - end - stride - 1) \div (-stride) ELSE 0)
    IN  IF stride = 0 THEN Raised
        ELSE Returned([k \in 1..count |-> start + (k - 1) * stride])

\* MeteoBlueConnector.convert_timeinterval_to_list: one formatted local time
\* per step of the range; the formatted text of timestamp n is [strftime |-> n].
convert_timeinterval_to_list(start, end, stride) ==
    LET r == PyRange(start, end, stride)
    IN  IF r.raised THEN Raised
        ELSE Returned([k \in 1..Len(r.value) |-> [strftime |-> r.value[k]]])

\* Mutant: the aggregation is used as returned, without upper-casing.
WeatherColumnName_NoUpper(var, agg, unit) ==
    PyReplace(var, " ", "_") \o Chars["_("] \o agg \o Chars[")_("] \o unit \o Chars[")"]

\* The weather column name of both scripts, for a non-empty agg:
\* var.replace(' ', '_') + '_(' + ''.join([agg[0].upper(), agg[1:]]) + ')_(' + unit + ')'
WeatherColumnName(var, agg, unit) ==
    PyReplace(var, " ", "_") \o Chars["_("] \o <<PyUpper(agg[1])>> \o Tail(agg) \o Chars[")_("] \o unit \o Chars[")"]

\* Mutant: the level string is used for aggregated codes too.
SoilColumnName_AlwaysLevel(var, level, start_depth, end_depth, unit) ==
    PyReplace(var, " ", "_") \o Chars["_("] \o level \o Chars[")_("] \o unit \o Chars[")"]

\* The soil column name of both scripts; start_depth and end_depth are read
\* only when the level is 'aggregated'.
SoilColumnName(var, level, start_depth, end_depth, unit) ==
    IF level = Chars[LVL_AGGREGATE]
    THEN PyReplace(var, " ", "_") \o Chars["_("] \o PyStrInt(start_depth) \o Chars["-"] \o PyStrInt(end_depth) \o Chars[")_("] \o unit \o Chars[")"]
    ELSE PyReplace(var, " ", "_") \o Chars["_("] \o level \o Chars[")_("] \o unit \o Chars[")"]

\* ---- Meteoblue extractor: responses are DatasetApiProtobuf messages ----

\* The loop over geometry.codes of convert_weather_json_to_dict: agg[0] raises
\* on an empty aggregation, timeIntervals[0] on an empty list.
RECURSIVE MbWeatherCodes(_, _, _, _)
MbWeatherCodes(self, codes, j, responses) ==
    IF j > Len(codes) THEN Returned(responses)
    ELSE LET var == lookup_variable_by_code(self.codes_lst, codes[j].code)
             agg == codes[j].aggregation
             unit == codes[j].unit
         IN  IF codes[j].timeIntervals = << >> \/ agg = << >> THEN Raised
             ELSE MbWeatherCodes(self, codes, j + 1,
                      DictSet(responses, WeatherColumnName(var, agg, unit), JsonList(codes[j].timeIntervals[1].data)))

\* The loop over result.geometries of convert_weather_json_to_dict.
RECURSIVE MbWeatherGeometries(_, _, _, _)
MbWeatherGeometries(self, geometries, i, responses) ==
    IF i > Len(geometries) THEN Returned(responses)
    ELSE LET geometry == geometries[i]
         IN  IF geometry.lats = << >> \/ geometry.lons = << >> \/ geometry.timeIntervals = << >> THEN Raised
             ELSE LET dates == convert_timeinterval_to_list(geometry.timeIntervals[1].start, geometry.timeIntervals[1].end, geometry.timeIntervals[1].stride)
                      r1 == DictSet(DictSet(responses, self.lat_col, geometry.lats[1]), self.lon_col, geometry.lons[1])
                  IN  IF dates.raised THEN Raised
                      ELSE LET r2 == MbWeatherCodes(self, geometry.codes, 1, DictSet(r1, DATES, dates.value))
                           IN  IF r2.raised THEN Raised
                               ELSE MbWeatherGeometries(self, geometries, i + 1, r2.value)

\* MeteoBlueConnector.convert_weather_json_to_dict; result is << >> when the
\* transport returned None, and result.geometries then raises.
convert_weather_json_to_dict(self, result, id_col, id_value) ==
    IF result = << >> THEN Raised
    ELSE MbWeatherGeometries(self, result[1].geometries, 1, id_col :> id_value)

\* The loop over geometry.codes of convert_soil_json_to_dict.
RECURSIVE MbSoilCodes(_, _, _, _)
MbSoilCodes(self, codes, j, responses) ==
    IF j > Len(codes) THEN Returned(responses)
    ELSE LET var == lookup_variable_by_code(self.codes_lst, codes[j].code)
             unit == codes[j].unit
             column_name == SoilColumnName(var, codes[j].level, codes[j].startDepth, codes[j].endDepth, unit)
         IN  IF codes[j].timeIntervals = << >> THEN Raised
             ELSE MbSoilCodes(self, codes, j + 1, DictSet(responses, column_name, JsonList(codes[j].timeIntervals[1].data)))

\* The loop over result.geometries of convert_soil_json_to_dict.
RECURSIVE MbSoilGeometries(_, _, _, _)
MbSoilGeometries(self, geometries, i, responses) ==
    IF i > Len(geometries) THEN Returned(responses)
    ELSE LET geometry == geometries[i]
         IN  IF geometry.lats = << >> \/ geometry.lons = << >> THEN Raised
             ELSE LET r1 == DictSet(DictSet(responses, self.lat_col, geometry.lats[1]), self.lon_col, geometry.lons[1])
                      r2 == MbSoilCodes(self, geometry.codes, 1, r1)
                  IN  IF r2.raised THEN Raised
                      ELSE MbSoilGeometries(self, geometries, i + 1, r2.value)

\* MeteoBlueConnector.convert_soil_json_to_dict.
convert_soil_json_to_dict(self, result, id_col, id_value) ==
    IF result = << >> THEN Raised
    ELSE MbSoilGeometries(self, result[1].geometries, 1, id_col :> id_value)

\* ---- CE Hub script: responses are parsed JSON (a list of dicts) ----

\* The loop over json[CODES] of CeHubConnector.convert_weather_json_to_dict:
\* codes[j][AGGREGATION] raises on an absent key, agg[0] on an empty str,
\* [0] on an empty list.
RECURSIVE CeHubWeatherCodes(_, _, _, _)
CeHubWeatherCodes(self, codes, j, response_dict) ==
    IF j > Len(codes) THEN Returned(response_dict)
    ELSE IF "aggregation" \notin DOMAIN codes[j] THEN Raised
    ELSE LET agg == PyStr(codes[j].aggregation)
             unit == codes[j].unit
             dpti == codes[j].dataPerTimeInterval
         IN  IF agg = << >> \/ dpti = << >> THEN Raised
             ELSE IF dpti[1].data = << >> THEN Raised
             ELSE CeHubWeatherCodes(self, codes, j + 1,
                      DictSet(response_dict, WeatherColumnName(PyStr(codes[j].variable), agg, unit), dpti[1].data[1]))

\* The loop over json_response of CeHubConnector.convert_weather_json_to_dict.
RECURSIVE CeHubWeatherJson(_, _, _, _)
CeHubWeatherJson(self, json_response, i, response_dict) ==
    IF i > Len(json_response) THEN Returned(response_dict)
    ELSE LET json == json_response[i]
             geometry == json.geometry
         IN  IF geometry.coordinates = << >> \/ geometry.locationNames = << >> \/ json.timeIntervals = << >> THEN Raised
             ELSE IF Len(geometry.coordinates[1]) < 2 THEN Raised
             ELSE LET coordinates == geometry.coordinates[1]
                      r1 == DictSet(response_dict, self.trial_col, geometry.locationNames[1])
                      r2 == DictSet(r1, self.lat_col, coordinates[1])
                      r3 == DictSet(r2, self.long_col, coordinates[2])
                      r4 == DictSet(r3, DATES, json.timeIntervals[1])
                      r5 == CeHubWeatherCodes(self, json.codes, 1, r4)
                  IN  IF r5.raised THEN Raised
                      ELSE CeHubWeatherJson(self, json_response, i + 1, r5.value)

\* CeHubConnector.convert_weather_json_to_dict; json_response is << >> when
\* the transport returned None, and len(json_response) then raises.
CeHub_convert_weather_json_to_dict(self, json_response) ==
    IF json_response = << >> THEN Raised
    ELSE CeHubWeatherJson(self, json_response[1], 1, << >>)

\* The loop over json[CODES] of CeHubConnector.convert_soil_json_to_dict.
RECURSIVE CeHubSoilCodes(_, _, _, _)
CeHubSoilCodes(self, codes, j, response_dict) ==
    IF j > Len(codes) THEN Returned(response_dict)
    ELSE LET unit == codes[j].unit
             dpti == codes[j].dataPerTimeInterval
             aggregated == codes[j].level = Chars[LVL_AGGREGATE]
         IN  IF aggregated /\ ~({"startDepth", "endDepth"} \subseteq DOMAIN codes[j]) THEN Raised
             ELSE IF dpti = << >> THEN Raised
             ELSE IF dpti[1].data = << >> THEN Raised
             ELSE LET column_name == SoilColumnName(PyStr(codes[j].variable), codes[j].level,
                                                    IF aggregated THEN codes[j].startDepth ELSE 0,
                                                    IF aggregated THEN codes[j].endDepth ELSE 0, unit)
                  IN  CeHubSoilCodes(self, codes, j + 1, DictSet(response_dict, column_name, dpti[1].data[1]))

\* The loop over json_response of CeHubConnector.convert_soil_json_to_dict.
RECURSIVE CeHubSoilJson(_, _, _, _)
CeHubSoilJson(self, json_response, i, response_dict) ==
    IF i > Len(json_response) THEN Returned(response_dict)
    ELSE LET json == json_response[i]
             geometry == json.geometry
         IN  IF geometry.coordinates = << >> \/ geometry.locationNames = << >> THEN Raised
             ELSE IF Len(geometry.coordinates[1]) < 2 THEN Raised
             ELSE LET coordinates == geometry.coordinates[1]
                      r1 == DictSet(response_dict, self.trial_col, geometry.locationNames[1])
                      r2 == DictSet(r1, self.lat_col, coordinates[1])
                      r3 == DictSet(r2, self.long_col, coordinates[2])
                      r4 == CeHubSoilCodes(self, json.codes, 1, r3)
                  IN  IF r4.raised THEN Raised
                      ELSE CeHubSoilJson(self, json_response, i + 1, r4.value)

\* CeHubConnector.convert_soil_json_to_dict.
CeHub_convert_soil_json_to_dict(self, json_response) ==
    IF json_response = << >> THEN Raised
    ELSE CeHubSoilJson(self, json_response[1], 1, << >>)

\* ---- pandas.DataFrame(response_dict) ----

\* The rows of DataFrame(d) when `columns` holds the values of d that are
\* lists and the other values are scalars: every list gives one value per
\* row and a scalar is repeated; the constructor raises when all values are
\* scalars and when two lists differ in length.
FrameRows(d, columns) ==
    LET lengths == {Len(columns[k]) : k \in DOMAIN columns}
    IN  IF DOMAIN columns = {} \/ Cardinality(lengths) > 1 THEN Raised
        ELSE LET n == CHOOSE x \in lengths : TRUE
             IN  Returned([r \in 1..n |-> [k \in DOMAIN d |-> IF k \in DOMAIN columns THEN columns[k][r] ELSE d[k]]])

\* pd.DataFrame(response_dict) of the Meteoblue extractor: the id, latitude
\* and longitude are scalars, the dates and every data array are lists.
MbDataFrame(self, response_dict) ==
    FrameRows(response_dict,
              [k \in DOMAIN response_dict \ {self.id_col, self.lat_col, self.lon_col} |->
                  IF k = DATES THEN response_dict[k] ELSE response_dict[k].list])

\* pd.DataFrame(response_dict) of the CE Hub script: the dates are a list, a
\* data value is a list or a number as returned; an empty dict gives an
\* empty frame.
CeHubDataFrame(self, response_dict) ==
    IF DOMAIN response_dict = {} THEN Returned(<< >>)
    ELSE FrameRows(response_dict,
                   [k \in {x \in DOMAIN response_dict \ {self.trial_col, self.lat_col, self.long_col} :
                               x = DATES \/ "list" \in DOMAIN response_dict[x]}
                       |-> IF k = DATES THEN response_dict[k] ELSE response_dict[k].list])

\* Series.str.replace(pat, '') on one str: every occurrence of pat is removed.
RECURSIVE StrRemove(_, _)
StrRemove(str, pat) ==
    IF Len(str) < Len(pat) \/ pat = << >> THEN str
    ELSE IF SubSeq(str, 1, Len(pat)) = pat THEN StrRemove(SubSeq(str, Len(pat) + 1, Len(str)), pat)
    ELSE <<str[1]>> \o StrRemove(Tail(str), pat)

\* pd.to_datetime(str[:8], format='%Y-%m-%d') on one str of the form
\* yyyymmdd, as pandas before 2.0 (the versions that have DataFrame.append)
\* parses it: the Timestamp of that day.
to_datetime(str) ==
    LET head == SubSeq(str, 1, IF Len(str) < 8 THEN Len(str) ELSE 8)
    IN  [year |-> SubSeq(head, 1, 4), month |-> SubSeq(head, 5, 6), day |-> SubSeq(head, 7, 8)]

\* ------------------------------------------------------------------------
\* Time windows (time_data of the Meteoblue extractor, load_trial_data of
\* the CE Hub script)
\* ------------------------------------------------------------------------
\* A pandas Timestamp is a number of ticks; a day has TicksPerDay of them.
\* A datetime.date is a number of days.
TicksPerDay == 2

\* timedelta(days=n)
timedelta(days) == days * TicksPerDay

\* Timestamp.date(): the time of day is dropped.
DateOf(timestamp) == timestamp \div TicksPerDay

SeqMin(q) == CHOOSE x \in {q[i] : i \in 1..Len(q)} : \A i \in 1..Len(q) : x <= q[i]
SeqMax(q) == CHOOSE x \in {q[i] : i \in 1..Len(q)} : \A i \in 1..Len(q) : x >= q[i]

\* Mutant: the two offsets are applied to the wrong ends.
WindowRow_OffsetsSwapped(row, start_date_offset, end_date_offset) ==
    [id |-> row.id, lat |-> row.lat, lon |-> row.lon, country_code |-> row.country_code,
     Start_Date |-> DateOf(SeqMin(row.dates) + timedelta(end_date_offset)),
     End_Date |-> DateOf(SeqMax(row.dates) + timedelta(start_date_offset))]

\* One row of df[joined_on_cols + start_end_cols]: row.dates holds the row's
\* values of the date-of-interest columns, already converted to Timestamps.
WindowRow(row, start_date_offset, end_date_offset) ==
    [id |-> row.id, lat |-> row.lat, lon |-> row.lon, country_code |-> row.country_code,
     Start_Date |-> DateOf(SeqMin(row.dates) + timedelta(start_date_offset)),
     End_Date |-> DateOf(SeqMax(row.dates) + timedelta(end_date_offset))]

\* Mutant: no row is dropped.
DropDuplicates_KeepsAll(rows) == rows

\* DataFrame.drop_duplicates(ignore_index=True): the first of equal rows stays.
RECURSIVE DropDuplicates(_)
DropDuplicates(rows) ==
    IF rows = << >> THEN << >>
    ELSE LET front == DropDuplicates(SubSeq(rows, 1, Len(rows) - 1))
             last == rows[Len(rows)]
         IN  IF \E i \in 1..Len(front) : front[i] = last THEN front ELSE Append(front, last)

\* MeteoBlueConnector.time_data. On a table without rows DataFrame.apply
\* returns a frame, not a column, and the assignment to Start_Date raises
\* ValueError.
time_data(df, start_date_offset, end_date_offset) ==
    IF Len(df) = 0 THEN Raised
    ELSE Returned(DropDuplicates([i \in 1..Len(df) |-> WindowRow(df[i], start_date_offset, end_date_offset)]))

\* CeHubConnector.load_trial_data, which raises on a table without rows as
\* time_data does.
load_trial_data(trial_df, start_date_offset, end_date_offset) ==
    IF Len(trial_df) = 0 THEN Raised
    ELSE Returned(DropDuplicates([i \in 1..Len(trial_df) |-> WindowRow(trial_df[i], start_date_offset, end_date_offset)]))

\* ------------------------------------------------------------------------
\* The domain maps read from the ini file (ConfigUtil of the Meteoblue
\* package, PropertyUtil of the CE Hub script)
\* ------------------------------------------------------------------------
\* A section of the ini file is the sequence of its `key = value` lines, a
\* line being [key |-> ..., value |-> ...] as written.

\* ConfigParser.optionxform as it is when the file is read: str.lower by
\* default, str when it was replaced before the read.
optionxform(option, preserve_case) ==
    IF preserve_case THEN option ELSE [i \in 1..Len(option) |-> PyLower(option[i])]

\* ConfigParser.read of a section: the options under their transformed
\* names, in file order; DuplicateOptionError when two names are the same
\* after the transformation.
ConfigParser_read(section, preserve_case) ==
    LET options == [i \in 1..Len(section) |->
                       [key |-> optionxform(section[i].key, preserve_case), value |-> section[i].value]]
    IN  IF \E i \in 1..Len(options) : \E j \in 1..Len(options) : i # j /\ options[i].key = options[j].key
        THEN Raised
        ELSE Returned(options)

\* The loop of get_all_keys_properties over the keys of the section: every
\* piece of the value split at ',' becomes a key of country_domain, with the
\* option's name as its value; a later update replaces an earlier one.
InvertOptions(options) ==
    LET after[n \in 0..Len(options)] ==
            IF n = 0 THEN << >>
            ELSE LET values == PySplit(options[n].value, ",")
                     each[v \in 0..Len(values)] ==
                         IF v = 0 THEN after[n - 1]
                         ELSE DictSet(each[v - 1], values[v], options[n].key)
                 IN  each[Len(values)]
    IN  after[Len(options)]

\* ConfigUtil(ini_file_name).get_all_keys_properties(section): the file is
\* read by the constructor, before optionxform is replaced.
ConfigUtil_get_all_keys_properties(section) ==
    LET config == ConfigParser_read(section, FALSE)
    IN  IF config.raised THEN Raised ELSE Returned(InvertOptions(config.value))

\* PropertyUtil.get_all_keys_properties(ini_file_name, section): optionxform
\* is replaced before the file is read.
PropertyUtil_get_all_keys_properties(section) ==
    LET config == ConfigParser_read(section, TRUE)
    IN  IF config.raised THEN Raised ELSE Returned(InvertOptions(config.value))

\* ------------------------------------------------------------------------
\* The interactive set-up of the ini file (ConfigUtil.run)
\* ------------------------------------------------------------------------
\* The ini file is the mapping from its property names to their values; the
\* properties of the File_Paths section and of the MeteoBlue section have
\* different names.

\* The property an option of the menu sets.
OptionProperty ==
    [o \in {"1", "2", "3", "4", "5", "6", "7", "8", "9", "10", "11", "12"} |->
        CASE o = "1" -> "input_file_dir"
          [] o = "2" -> "output_file_dir"
          [] o = "3" -> "source_data_filename"
          [] o = "4" -> "sheet_name"
          [] o = "5" -> "api_key"
          [] o = "6" -> "id_col"
          [] o = "7" -> "latitude_col"
          [] o = "8" -> "longitude_col"
          [] o = "9" -> "country_code_col"
          [] o = "10" -> "user_interested_date_columns"
          [] o = "11" -> "start_date_offset"
          [] o = "12" -> "end_date_offset"]

\* The options whose property goes to filepath_sec_d; the others go to
\* meteoblue_sec_d.
FilePathOptions == {"1", "2", "3", "4"}

\* The two dicts clear_value writes: every user-specific property with ''.
filepath_sec_clear_lst ==
    [k \in {"input_file_dir", "output_file_dir", "source_data_filename", "sheet_name"} |-> ""]

meteoblue_sec_clear_lst ==
    [k \in {"api_key", "id_col", "latitude_col", "longitude_col", "country_code_col", "user_interested_date_columns"} |-> ""]

\* ConfigUtil.set_value: the file after the values of key_value are written
\* over those of the same keys.
set_value(file, key_value) ==
    [k \in DOMAIN file |-> IF k \in DOMAIN key_value THEN key_value[k] ELSE file[k]]

\* ConfigUtil.clear_value: set_value of the two clear lists.
clear_value(file) == set_value(set_value(file, filepath_sec_clear_lst), meteoblue_sec_clear_lst)

\* ------------------------------------------------------------------------
\* Bounded inputs
\* ------------------------------------------------------------------------
\* Country codes a record can carry, keys a domain map can hold, and the
\* data-source identifiers a map can name.
CountryCodes == {"BR", "US"}
MapKeys == {"BR", DEFAULT_upper}
DomainIds == {"ERA5", "NEMS4"}

\* Every dict from some of the keys to a data source, the empty dict included.
DomainMaps == UNION {[ks -> DomainIds] : ks \in SUBSET MapKeys}

Depths == {START_DEPTH_0, END_DEPTH_30, END_DEPTH_60}

\* The most codes a response geometry carries.
MaxCodes == 2

\* Sequences over S of length at most n.
SeqsUpTo(S, n) == UNION {[1..k -> S] : k \in 0..n}

\* The content of the codes file: code and variable of the codes used here.
CodesTable ==
    << [code |-> TEMP, variable |-> Chars["Temperature"]],
       [code |-> WIND_SPEED, variable |-> Chars["Wind Speed"]],
       [code |-> WIND_DIRECTION, variable |-> Chars["Wind Direction"]],
       [code |-> CLAY_CONTENT_MASS_FRACTION, variable |-> Chars["Clay content"]],
       [code |-> ORGANIC_CARBON_STOCKS, variable |-> Chars["Organic carbon stocks"]],
       [code |-> PH_IN_H20, variable |-> Chars["pH in H2O"]] >>

\* The same file without its temperature entry.
CodesTableNoTemp == Tail(CodesTable)

\* The data arrays a returned code can carry: one or two time steps.
DataArrays == {<<5>>, <<5, 6>>}

\* Returned weather codes of a DatasetApiProtobuf message; the aggregation
\* of a code that has none reads as '' (unset) or as 'none'.
MbWeatherEntries ==
    {[code |-> e[1], aggregation |-> Chars[e[2]], unit |-> Chars[e[3]], level |-> Chars[e[4]],
      startDepth |-> 0, endDepth |-> 0, timeIntervals |-> << [data |-> d] >>] :
        e \in {<<TEMP, "mean", "C", "2 m elevation corrected">>,
               <<TEMP, "max", "C", "2 m elevation corrected">>,
               <<WIND_SPEED, "mean", "km/h", "10 m above gnd">>,
               <<WIND_DIRECTION, "", "deg", "10 m above gnd">>,
               <<WIND_DIRECTION, "none", "deg", "10 m above gnd">>},
        d \in DataArrays}

\* Returned soil codes of a DatasetApiProtobuf message.
MbSoilEntries ==
    {[code |-> e[1], aggregation |-> Chars[""], unit |-> Chars[e[5]], level |-> Chars[e[2]],
      startDepth |-> e[3], endDepth |-> e[4], timeIntervals |-> << [data |-> d] >>] :
        e \in {<<CLAY_CONTENT_MASS_FRACTION, "aggregated", 0, 30, "%">>,
               <<CLAY_CONTENT_MASS_FRACTION, "aggregated", 0, 60, "%">>,
               <<ORGANIC_CARBON_STOCKS, "0-30 cm", 0, 0, "%">>,
               <<PH_IN_H20, "aggregated", 0, 30, "pH">>},
        d \in DataArrays}

MbGeometry(codes, end) ==
    [lats |-> <<10>>, lons |-> <<20>>,
     timeIntervals |-> << [start |-> 0, end |-> end, stride |-> 1] >>,
     codes |-> codes]

\* What get_meteoblue_data hands to a flattener: None, a message without
\* geometries, or a message with one geometry.
MbResults(entries) ==
    {<< >>, << [geometries |-> << >>] >>}
    \cup {<< [geometries |-> << MbGeometry(codes, end) >>] >> :
              codes \in SeqsUpTo(entries, MaxCodes), end \in {1, 2}}

\* The elements a JSON data array can carry.
JsonDataArrays == {<<JsonNum(5)>>, <<JsonList(<<5, 6>>)>>, <<JsonNum(5), JsonNum(6)>>}

\* Returned weather codes of a CE Hub JSON response; the aggregation of a
\* code that has none is absent or null.
CeHubWeatherEntries ==
    {[variable |-> Chars[e[1]], aggregation |-> Chars[e[2]], unit |-> Chars[e[3]], level |-> Chars[e[4]],
      dataPerTimeInterval |-> << [data |-> d] >>] :
        e \in {<<"Temperature", "mean", "C", "2 m elevation corrected">>,
               <<"Temperature", "max", "C", "2 m elevation corrected">>,
               <<"Wind Speed", "mean", "km/h", "10 m above gnd">>},
        d \in JsonDataArrays}
    \cup {[variable |-> Chars["Wind Direction"], aggregation |-> NoneStr, unit |-> Chars["deg"],
           level |-> Chars["10 m above gnd"], dataPerTimeInterval |-> << [data |-> <<JsonNum(5)>>] >>],
          [variable |-> Chars["Wind Direction"], unit |-> Chars["deg"],
           level |-> Chars["10 m above gnd"], dataPerTimeInterval |-> << [data |-> <<JsonNum(5)>>] >>]}

\* Returned soil codes of a CE Hub JSON response.
CeHubSoilEntries ==
    {[variable |-> Chars[e[1]], unit |-> Chars[e[3]], level |-> Chars["aggregated"],
      startDepth |-> 0, endDepth |-> e[2], dataPerTimeInterval |-> << [data |-> d] >>] :
        e \in {<<"Clay content", 30, "%">>, <<"Clay content", 60, "%">>, <<"pH in H2O", 30, "pH">>},
        d \in JsonDataArrays}
    \cup {[variable |-> Chars["Organic carbon stocks"], unit |-> Chars["%"], level |-> Chars["0-30 cm"],
           dataPerTimeInterval |-> << [data |-> d] >>] : d \in JsonDataArrays}

CeHubJson(codes) ==
    [geometry |-> [coordinates |-> << <<20, 10, 300>> >>, locationNames |-> << "T1" >>],
     timeIntervals |-> << << Chars["20200101T0000"], Chars["20200102T0000"] >> >>,
     codes |-> codes]

\* What get_cehub_data hands to a flattener: None, an empty list, or a list
\* of one dict.
CeHubResults(entries) ==
    {<< >>, << << >> >>}
    \cup {<< << CeHubJson(codes) >> >> : codes \in SeqsUpTo(entries, MaxCodes)}

\* The connector objects: the column names and, for Meteoblue, the codes list.
MbConnectors ==
    {[id_col |-> Chars["id"], lat_col |-> Chars["lat"], lon_col |-> Chars["lon"], codes_lst |-> t] :
        t \in {CodesTable, CodesTableNoTemp}}

CeHubConnectorObject ==
    [trial_col |-> Chars["id"], lat_col |-> Chars["lat"], long_col |-> Chars["lon"]]

\* The most `key = value` lines a section of the ini file holds.
MaxOptions == 2

\* The lines a domain section can hold, and the sections made of them.
IniLines ==
    {[key |-> Chars[k], value |-> Chars[v]] :
        k \in {"ERA5", "era5", "NEMS4"}, v \in {"BR", "BR,US", "US,DEFAULT", ""}}

IniSections == SeqsUpTo(IniLines, MaxOptions)

\* The most answers the user gives to the option prompt of ConfigUtil.run.
MaxInputs == 3

\* What the user types for a property.
TypedValues == {"a", "b"}

\* The ini file before the set-up: every property has a value.
IniFiles == {[k \in {OptionProperty[o] : o \in DOMAIN OptionProperty} |-> "old"]}

\* The most rows the input table holds.
MaxRecords == 2

\* The configured day offsets.
Offsets == {-1, 0, 1}

\* Timestamps of the date-of-interest cells: days 2 to 4, at several times of day.
DateValues == {2 * TicksPerDay, 2 * TicksPerDay + 1, 3 * TicksPerDay, 4 * TicksPerDay + 1}

\* Input rows with two date-of-interest columns.
TimeRows ==
    {[id |-> "T1", lat |-> 10, lon |-> 20, country_code |-> "BR", dates |-> <<d1, d2>>] :
        d1 \in DateValues, d2 \in DateValues}

\* Input rows of the whole-run model.
MainRows ==
    {[id |-> "T1", lat |-> 10, lon |-> 20, country_code |-> "BR", dates |-> <<2 * TicksPerDay + 1, 3 * TicksPerDay>>],
     [id |-> "T1", lat |-> 10, lon |-> 20, country_code |-> "BR", dates |-> <<3 * TicksPerDay + 1, 2 * TicksPerDay>>],
     [id |-> "T2", lat |-> 11, lon |-> 21, country_code |-> "US", dates |-> <<4 * TicksPerDay, 2 * TicksPerDay>>]}

\* Domain sections of the ini file of the whole-run model, as they are
\* written: with and without a line that lists DEFAULT.
FlowSections ==
    {<< [key |-> Chars["ERA5"], value |-> Chars["BR"]], [key |-> Chars["NEMS4"], value |-> Chars["DEFAULT"]] >>,
     << [key |-> Chars["ERA5"], value |-> Chars["BR"]] >>}

\* The connector of the CE Hub run.
cehub == CeHubConnectorObject

\* The JSON the CE Hub service answers a weather request for a trial with:
\* an empty list, a list of one dict that flattens and names the trial, and
\* a list of one dict whose second code, wind direction, has no aggregation
\* key, so that flattening raises after the first code's column.
MainCeHubWeatherResults(trial) ==
    LET temperature == CHOOSE x \in CeHubWeatherEntries :
                           /\ x.variable = Chars["Temperature"]
                           /\ x.aggregation = Chars["mean"]
                           /\ x.dataPerTimeInterval[1].data = <<JsonNum(5)>>
        wind_direction == CHOOSE x \in CeHubWeatherEntries :
                              x.variable = Chars["Wind Direction"] /\ "aggregation" \notin DOMAIN x
    IN  {<< >>,
         << [CeHubJson(<< temperature >>) EXCEPT !.geometry.locationNames = <<trial>>] >>,
         << [CeHubJson(<< temperature, wind_direction >>) EXCEPT !.geometry.locationNames = <<trial>>] >>}

\* The JSON the CE Hub service answers a soil request for a trial with: a
\* list of one dict whose data element is a list, or a number.
MainCeHubSoilResults(trial) ==
    {<< [CeHubJson(<< e >>) EXCEPT !.geometry.locationNames = <<trial>>] >> :
         e \in {x \in CeHubSoilEntries : /\ x.variable = Chars["Clay content"] /\ x.endDepth = 30
                                         /\ x.dataPerTimeInterval[1].data \in {<<JsonNum(5)>>, <<JsonList(<<5, 6>>)>>}}}

\* What one attempt to reach the service does: it returns a result, raises
\* ConnectionError, or raises another exception.
Attempts(results) ==
    {[exception |-> "none", result |-> <<r>>] : r \in results}
    \cup {[exception |-> e, result |-> << >>] : e \in {"ConnectionError", "Exception"}}

VARIABLES b_pc, b_country_code, b_precipitation_domains, b_temperature_domains, b_wind_domains, b_resolved, b_weather_query, b_start_depth, b_end_depth, b_soil_query, b_calls

b_vars == <<b_pc, b_country_code, b_precipitation_domains, b_temperature_domains, b_wind_domains, b_resolved, b_weather_query, b_start_depth, b_end_depth, b_soil_query, b_calls>>

VARIABLES f_pc, f_script, f_category, f_self, f_result, f_id_value, f_out, f_first

f_vars == <<f_pc, f_script, f_category, f_self, f_result, f_id_value, f_out, f_first>>

VARIABLES script, pc, s_date_offset, e_date_offset, start_date_offset, end_date_offset, precipitation_dom, temperature_dom, wind_dom, data_df, ini_offsets, time_args, time_df, weather_queries, weather_counter, weather_response, weather_df, failed_weather_df, failed_weather_trials, requests

VARIABLES soil_queries, soil_counter, soil_response, soil_df, failed_soil_trials, written

\* The variables of the soil loop and of the output files.
s_vars == <<soil_queries, soil_counter, soil_response, soil_df, failed_soil_trials, written>>

\* The variables set before the soil loop starts.
w_vars == <<script, s_date_offset, e_date_offset, start_date_offset, end_date_offset, precipitation_dom, temperature_dom, wind_dom, data_df, ini_offsets, time_args, time_df, weather_queries, weather_counter, weather_response, failed_weather_df, failed_weather_trials>>

m_vars == <<script, pc, s_date_offset, e_date_offset, start_date_offset, end_date_offset, precipitation_dom, temperature_dom, wind_dom, data_df, ini_offsets, time_args, time_df, weather_queries, weather_counter, weather_response, weather_df, failed_weather_df, failed_weather_trials, requests, s_vars>>

VARIABLES c_pc, c_util, c_section, c_out

c_vars == <<c_pc, c_util, c_section, c_out>>

VARIABLES r_pc, ini_file, filepath_sec_d, meteoblue_sec_d, typed

r_vars == <<r_pc, ini_file, filepath_sec_d, meteoblue_sec_d, typed>>

vars == <<b_vars, f_vars, m_vars, c_vars, r_vars>>

\* What an action of one part leaves alone: the variables of the other parts.
not_b == <<f_vars, m_vars, c_vars, r_vars>>
not_f == <<b_vars, m_vars, c_vars, r_vars>>
not_m == <<b_vars, f_vars, c_vars, r_vars>>
not_c == <<b_vars, f_vars, m_vars, r_vars>>
not_r == <<b_vars, f_vars, m_vars, c_vars>>

\* ------------------------------------------------------------------------
\* SpecBuild: the two query builders applied to bounded arguments
\* ------------------------------------------------------------------------
\* b_pc records which builders have returned.
BuildStart ==
    /\ b_pc = [weather |-> FALSE, soil |-> FALSE]
    /\ b_country_code \in CountryCodes
    /\ b_precipitation_domains \in DomainMaps
    /\ b_temperature_domains \in DomainMaps
    /\ b_wind_domains \in DomainMaps
    /\ b_resolved = None
    /\ b_weather_query = None
    /\ b_start_depth \in Depths
    /\ b_end_depth \in Depths
    /\ b_soil_query = None
    /\ b_calls = << >>

BuildIdle ==
    /\ b_pc = [weather |-> FALSE, soil |-> FALSE]
    /\ b_country_code = "BR"
    /\ b_precipitation_domains = << >>
    /\ b_temperature_domains = << >>
    /\ b_wind_domains = << >>
    /\ b_resolved = None
    /\ b_weather_query = None
    /\ b_start_depth = 0
    /\ b_end_depth = 0
    /\ b_soil_query = None
    /\ b_calls = << >>

\* The most calls of build_weather_data_query_best_dataset in a row.
MaxCalls == 3

\* A call of build_weather_data_query_best_dataset: the locals, then the
\* list. The weather loop calls it once per record with the same three
\* maps; b_calls keeps what the calls so far returned. The maps are only
\* read (dict.get).
BuildWeatherQuery ==
    /\ Len(b_calls) < MaxCalls
    /\ b_resolved' = ResolvedDomains(b_country_code, b_precipitation_domains, b_temperature_domains, b_wind_domains)
    /\ b_weather_query' = build_weather_data_query_best_dataset(b_country_code, b_precipitation_domains, b_temperature_domains, b_wind_domains)
    /\ b_calls' = Append(b_calls, b_weather_query')
    /\ b_pc' = [b_pc EXCEPT !.weather = TRUE]
    /\ UNCHANGED <<b_country_code, b_precipitation_domains, b_temperature_domains, b_wind_domains, b_start_depth, b_end_depth, b_soil_query>>
    /\ UNCHANGED not_b

\* A call of build_soil_query.
BuildSoilQuery ==
    /\ ~b_pc.soil
    /\ b_soil_query' = build_soil_query(b_start_depth, b_end_depth)
    /\ b_pc' = [b_pc EXCEPT !.soil = TRUE]
    /\ UNCHANGED <<b_country_code, b_precipitation_domains, b_temperature_domains, b_wind_domains, b_resolved, b_weather_query, b_start_depth, b_end_depth, b_calls>>
    /\ UNCHANGED not_b

BuildNext == BuildWeatherQuery \/ BuildSoilQuery

\* ------------------------------------------------------------------------
\* SpecConfig: a domain section of the ini file turned into a domain map
\* ------------------------------------------------------------------------
ConfigStart ==
    /\ c_pc = "ready"
    /\ c_util \in {"ConfigUtil", "PropertyUtil"}
    /\ c_section \in IniSections
    /\ c_out = Raised

ConfigIdle ==
    /\ c_pc = "idle"
    /\ c_util = "ConfigUtil"
    /\ c_section = << >>
    /\ c_out = Raised

\* config.get_all_keys_properties(section) of the Meteoblue extractor.
GetAllKeysProperties ==
    /\ c_pc = "ready" /\ c_util = "ConfigUtil"
    /\ c_out' = ConfigUtil_get_all_keys_properties(c_section)
    /\ c_pc' = "done"
    /\ UNCHANGED <<c_util, c_section>>
    /\ UNCHANGED not_c

\* PropertyUtil.get_all_keys_properties(INI_FILE, section) of the CE Hub script.
PropertyUtilGetAllKeysProperties ==
    /\ c_pc = "ready" /\ c_util = "PropertyUtil"
    /\ c_out' = PropertyUtil_get_all_keys_properties(c_section)
    /\ c_pc' = "done"
    /\ UNCHANGED <<c_util, c_section>>
    /\ UNCHANGED not_c

ConfigNext == GetAllKeysProperties \/ PropertyUtilGetAllKeysProperties

\* ------------------------------------------------------------------------
\* SpecSetup: ConfigUtil.run over bounded sequences of answers
\* ------------------------------------------------------------------------
\* typed is the log of the answers to the option prompt, each with the
\* value typed after it: the property's value for an option, the answer to
\* the confirmation for 'exit', nothing for 'clear'.
SetupStart ==
    /\ r_pc = "menu"
    /\ ini_file \in IniFiles
    /\ filepath_sec_d = << >>
    /\ meteoblue_sec_d = << >>
    /\ typed = << >>

SetupIdle ==
    /\ r_pc = "idle"
    /\ ini_file = << >>
    /\ filepath_sec_d = << >>
    /\ meteoblue_sec_d = << >>
    /\ typed = << >>

\* Options '1' to '12': the value typed is put into the section's dict.
TypeOption ==
    /\ r_pc = "menu" /\ Len(typed) < MaxInputs
    /\ \E o \in DOMAIN OptionProperty : \E value \in TypedValues :
           /\ typed' = Append(typed, [o |-> o, value |-> value])
           /\ IF o \in FilePathOptions
              THEN /\ filepath_sec_d' = DictSet(filepath_sec_d, OptionProperty[o], value)
                   /\ UNCHANGED meteoblue_sec_d
              ELSE /\ meteoblue_sec_d' = DictSet(meteoblue_sec_d, OptionProperty[o], value)
                   /\ UNCHANGED filepath_sec_d
    /\ UNCHANGED <<r_pc, ini_file>>
    /\ UNCHANGED not_r

\* Option 'clear': clear_value writes the file; the two dicts stay.
TypeClear ==
    /\ r_pc = "menu" /\ Len(typed) < MaxInputs
    /\ typed' = Append(typed, [o |-> "clear", value |-> ""])
    /\ ini_file' = clear_value(ini_file)
    /\ UNCHANGED <<r_pc, filepath_sec_d, meteoblue_sec_d>>
    /\ UNCHANGED not_r

\* Option 'exit': after the answer 'y' the loop ends and each dict that is
\* not empty is written to its section; after another answer the loop goes
\* on.
TypeExit ==
    /\ r_pc = "menu"
    /\ \E before_exit \in {"y", "n"} :
           /\ before_exit = "n" => Len(typed) < MaxInputs
           /\ typed' = Append(typed, [o |-> "exit", value |-> before_exit])
           /\ IF before_exit = "y"
              THEN /\ r_pc' = "done"
                   /\ ini_file' = set_value(set_value(ini_file, filepath_sec_d), meteoblue_sec_d)
              ELSE UNCHANGED <<r_pc, ini_file>>
    /\ UNCHANGED <<filepath_sec_d, meteoblue_sec_d>>
    /\ UNCHANGED not_r

SetupNext == TypeOption \/ TypeClear \/ TypeExit

\* ------------------------------------------------------------------------
\* SpecFlat: the four flatteners applied to bounded responses
\* ------------------------------------------------------------------------
FlatStart ==
    /\ f_pc = "ready"
    /\ f_script \in {"meteoblue", "cehub"}
    /\ f_category \in {"weather", "soil"}
    /\ f_self \in (IF f_script = "meteoblue" THEN MbConnectors ELSE {CeHubConnectorObject})
    /\ f_result \in (CASE f_script = "meteoblue" /\ f_category = "weather" -> MbResults(MbWeatherEntries)
                       [] f_script = "meteoblue" /\ f_category = "soil" -> MbResults(MbSoilEntries)
                       [] f_script = "cehub" /\ f_category = "weather" -> CeHubResults(CeHubWeatherEntries)
                       [] f_script = "cehub" /\ f_category = "soil" -> CeHubResults(CeHubSoilEntries))
    /\ f_id_value = "T1"
    /\ f_out = Raised
    /\ f_first = << >>

FlatIdle ==
    /\ f_pc = "idle"
    /\ f_script = "meteoblue"
    /\ f_category = "weather"
    /\ f_self = CeHubConnectorObject
    /\ f_result = << >>
    /\ f_id_value = "T1"
    /\ f_out = Raised
    /\ f_first = << >>

\* Each flattener is called on the response, and then a second time on the
\* same response with the same arguments; f_first keeps what the first call
\* returned or that it raised. No flattener assigns to self or to its
\* argument.

\* mb.convert_weather_json_to_dict(weather_response, id_column, id_value)
FlattenWeather ==
    /\ f_pc \in {"ready", "done"} /\ f_script = "meteoblue" /\ f_category = "weather"
    /\ f_out' = convert_weather_json_to_dict(f_self, f_result, f_self.id_col, f_id_value)
    /\ f_first' = IF f_pc = "ready" THEN <<f_out'>> ELSE f_first
    /\ f_pc' = IF f_pc = "ready" THEN "done" ELSE "again"
    /\ UNCHANGED <<f_script, f_category, f_self, f_result, f_id_value>>
    /\ UNCHANGED not_f

\* mb.convert_soil_json_to_dict(soil_response, id_column, id_value)
FlattenSoil ==
    /\ f_pc \in {"ready", "done"} /\ f_script = "meteoblue" /\ f_category = "soil"
    /\ f_out' = convert_soil_json_to_dict(f_self, f_result, f_self.id_col, f_id_value)
    /\ f_first' = IF f_pc = "ready" THEN <<f_out'>> ELSE f_first
    /\ f_pc' = IF f_pc = "ready" THEN "done" ELSE "again"
    /\ UNCHANGED <<f_script, f_category, f_self, f_result, f_id_value>>
    /\ UNCHANGED not_f

\* cehub.convert_weather_json_to_dict(json_response)
CeHubFlattenWeather ==
    /\ f_pc \in {"ready", "done"} /\ f_script = "cehub" /\ f_category = "weather"
    /\ f_out' = CeHub_convert_weather_json_to_dict(f_self, f_result)
    /\ f_first' = IF f_pc = "ready" THEN <<f_out'>> ELSE f_first
    /\ f_pc' = IF f_pc = "ready" THEN "done" ELSE "again"
    /\ UNCHANGED <<f_script, f_category, f_self, f_result, f_id_value>>
    /\ UNCHANGED not_f

\* cehub.convert_soil_json_to_dict(json_response)
CeHubFlattenSoil ==
    /\ f_pc \in {"ready", "done"} /\ f_script = "cehub" /\ f_category = "soil"
    /\ f_out' = CeHub_convert_soil_json_to_dict(f_self, f_result)
    /\ f_first' = IF f_pc = "ready" THEN <<f_out'>> ELSE f_first
    /\ f_pc' = IF f_pc = "ready" THEN "done" ELSE "again"
    /\ UNCHANGED <<f_script, f_category, f_self, f_result, f_id_value>>
    /\ UNCHANGED not_f

FlatNext == FlattenWeather \/ FlattenSoil \/ CeHubFlattenWeather \/ CeHubFlattenSoil

\* ------------------------------------------------------------------------
\* Spec: one run of an extractor script
\* ------------------------------------------------------------------------
\* A program variable that may not be bound yet is << >> or <<value>>.
\* Rows of a DataFrame are numbered from 1 here and from 0 in the code.

\* The variables of the run that are set after the time windows are derived.
RunNotStarted ==
    /\ time_args = [start_date_offset |-> 0, end_date_offset |-> 0]
    /\ time_df = << >>
    /\ weather_queries = << >>
    /\ weather_counter = 1
    /\ weather_response = << >>
    /\ weather_df = << >>
    /\ failed_weather_df = {}
    /\ failed_weather_trials = 0
    /\ requests = << >>
    /\ soil_queries = << >>
    /\ soil_counter = 1
    /\ soil_response = << >>
    /\ soil_df = << >>
    /\ failed_soil_trials = 0
    /\ written = << >>

\* The start of a run. The Meteoblue extractor is at the first statement of
\* its main block (line 532) and has read nothing yet. The CE Hub script has
\* read its properties (lines 585-631): the offsets of the ini file are in
\* start_date_offset and end_date_offset, the three domain maps are loaded
\* with PropertyUtil, which gives the domain identifiers as written, and
\* data_df is the input table load_trial_data reads.
MainStart ==
    /\ script \in {"meteoblue", "cehub"}
    /\ ini_offsets \in [start_date_offset : Offsets, end_date_offset : Offsets]
    /\ s_date_offset = << >> /\ e_date_offset = << >>
    /\ IF script = "meteoblue"
       THEN /\ pc = "properties"
            /\ start_date_offset = << >> /\ end_date_offset = << >>
            /\ precipitation_dom = << >>
            /\ temperature_dom = << >>
            /\ wind_dom = << >>
            /\ data_df = << >>
       ELSE /\ pc = "clamp"
            /\ start_date_offset = <<ini_offsets.start_date_offset>>
            /\ end_date_offset = <<ini_offsets.end_date_offset>>
            /\ LET StrOf(chars) == CHOOSE str \in DOMAIN Chars : Chars[str] = chars
                   Loaded(section) ==
                       LET country_domain == PropertyUtil_get_all_keys_properties(section).value
                       IN  [k \in {StrOf(c) : c \in DOMAIN country_domain} |-> StrOf(country_domain[Chars[k]])]
               IN  /\ precipitation_dom \in {Loaded(section) : section \in FlowSections}
                   /\ temperature_dom \in {Loaded(section) : section \in FlowSections}
                   /\ wind_dom = Loaded(<< [key |-> Chars["ERA5"], value |-> Chars["BR"]],
                                            [key |-> Chars["NEMS4"], value |-> Chars["DEFAULT"]] >>)
            /\ data_df \in SeqsUpTo(MainRows, MaxRecords)
    /\ RunNotStarted

MainIdle ==
    /\ script = "meteoblue"
    /\ pc = "idle"
    /\ ini_offsets = [start_date_offset |-> 0, end_date_offset |-> 0]
    /\ s_date_offset = << >> /\ e_date_offset = << >>
    /\ start_date_offset = << >> /\ end_date_offset = << >>
    /\ precipitation_dom = << >>
    /\ temperature_dom = << >>
    /\ wind_dom = << >>
    /\ data_df = << >>
    /\ RunNotStarted

\* Meteoblue lines 532-563: the api key is read and the process exits with
\* status 1 when it is empty; then the directories and the file names are
\* read, and line 561 reads constants.CODES_FILE. The constants module has
\* no such name (it has CODE_JSON, WEATHER_JSON and SOIL_JSON), so the line
\* raises AttributeError and the script ends there: the offsets, the domain
\* maps and the input table are never read.
LoadProperties ==
    /\ pc = "properties" /\ script = "meteoblue"
    /\ \E api_key \in {"", "key"} :
           pc' = IF api_key = "" THEN "exited" ELSE "attribute_error"
    /\ UNCHANGED <<script, s_date_offset, e_date_offset, start_date_offset, end_date_offset, precipitation_dom, temperature_dom, wind_dom, data_df, ini_offsets, time_args, time_df, weather_queries, weather_counter, weather_response, weather_df, failed_weather_df, failed_weather_trials, requests>>
    /\ UNCHANGED s_vars
    /\ UNCHANGED not_m

\* CeHubConnector.get_cehub_data: one urlopen; its result is returned,
\* ConnectionError is followed by time.sleep(10) and any other exception by
\* a message, and both then return None. `requests` keeps one entry per
\* urlopen, with the exception it ended in and what the call returned.
get_cehub_data(urlopen) ==
    IF urlopen.exception = "none" THEN urlopen.result ELSE << >>

\* Mutant: the offsets go on as they were read.
CeHubClampOffsets_KeepsConfigured ==
    /\ pc = "clamp" /\ script = "cehub"
    /\ pc' = "time_data"
    /\ UNCHANGED <<script, s_date_offset, e_date_offset, start_date_offset, end_date_offset, precipitation_dom, temperature_dom, wind_dom, data_df, ini_offsets, time_args, time_df, weather_queries, weather_counter, weather_response, weather_df, failed_weather_df, failed_weather_trials, requests>>
    /\ UNCHANGED s_vars
    /\ UNCHANGED not_m

\* CE Hub lines 617-622: the offsets are clamped in place.
CeHubClampOffsets ==
    /\ pc = "clamp" /\ script = "cehub"
    /\ start_date_offset' = IF start_date_offset[1] > 0 THEN <<0>> ELSE start_date_offset
    /\ end_date_offset' = IF end_date_offset[1] < 0 THEN <<0>> ELSE end_date_offset
    /\ pc' = "time_data"
    /\ UNCHANGED <<script, s_date_offset, e_date_offset, precipitation_dom, temperature_dom, wind_dom, data_df, ini_offsets, time_args, time_df, weather_queries, weather_counter, weather_response, weather_df, failed_weather_df, failed_weather_trials, requests>>
    /\ UNCHANGED s_vars
    /\ UNCHANGED not_m

\* mb.time_data(data_df, ..., s_date_offset, e_date_offset) as lines 607-612
\* of the Meteoblue extractor call it, with the empty result table and the
\* copy of time_df they make. A run of the script ends before these lines
\* (LoadProperties), so the step is taken in SpecTime only, which applies
\* the derivation to bounded tables and offsets.
TimeData ==
    /\ pc = "time_data" /\ script = "meteoblue"
    /\ time_args' = [start_date_offset |-> s_date_offset[1], end_date_offset |-> e_date_offset[1]]
    /\ LET called == time_data(data_df, s_date_offset[1], e_date_offset[1])
       IN  IF called.raised
           THEN /\ pc' = "value_error"
                /\ UNCHANGED <<time_df, weather_df, failed_weather_df>>
           ELSE /\ time_df' = called.value
                /\ weather_df' = << >>
                /\ failed_weather_df' = 1..Len(time_df')
                /\ pc' = "weather_prompt"
    /\ UNCHANGED <<script, s_date_offset, e_date_offset, start_date_offset, end_date_offset, precipitation_dom, temperature_dom, wind_dom, data_df, ini_offsets, weather_queries, weather_counter, weather_response, failed_weather_trials, requests>>
    /\ UNCHANGED s_vars
    /\ UNCHANGED not_m

\* CE Hub lines 635-642: cehub.load_trial_data(..., start_date_offset,
\* end_date_offset), then the empty result table and the failure counter.
\* An exception raised by load_trial_data ends the script.
CeHubLoadTrialData ==
    /\ pc = "time_data" /\ script = "cehub"
    /\ time_args' = [start_date_offset |-> start_date_offset[1], end_date_offset |-> end_date_offset[1]]
    /\ LET called == load_trial_data(data_df, start_date_offset[1], end_date_offset[1])
       IN  IF called.raised
           THEN /\ pc' = "value_error"
                /\ UNCHANGED <<time_df, weather_df, failed_weather_trials, weather_counter>>
           ELSE /\ time_df' = called.value
                /\ weather_df' = << >>
                /\ failed_weather_trials' = 0
                /\ weather_counter' = 1
                /\ pc' = IF Len(time_df') = 0 THEN "weather_done" ELSE "weather_request"
    /\ UNCHANGED <<script, s_date_offset, e_date_offset, start_date_offset, end_date_offset, precipitation_dom, temperature_dom, wind_dom, data_df, ini_offsets, weather_queries, weather_response, failed_weather_df, requests>>
    /\ UNCHANGED s_vars
    /\ UNCHANGED not_m

\* CE Hub lines 645-650: the query is built for every record and sent.
CeHubWeatherRequest ==
    /\ pc = "weather_request" /\ script = "cehub"
    /\ LET queries == <<build_weather_data_query_best_dataset(time_df[weather_counter].country_code, precipitation_dom, temperature_dom, wind_dom)>>
       IN  /\ weather_queries' = queries
           /\ \E urlopen \in Attempts(MainCeHubWeatherResults(time_df[weather_counter].id)) :
                  /\ weather_response' = get_cehub_data(urlopen)
                  /\ requests' = Append(requests, [category |-> "weather", record |-> weather_counter, queries |-> queries, exception |-> urlopen.exception, response |-> weather_response'])
    /\ pc' = "weather_flatten"
    /\ UNCHANGED <<script, s_date_offset, e_date_offset, start_date_offset, end_date_offset, precipitation_dom, temperature_dom, wind_dom, data_df, ini_offsets, time_args, time_df, weather_counter, weather_df, failed_weather_df, failed_weather_trials>>
    /\ UNCHANGED s_vars
    /\ UNCHANGED not_m

\* Mutant: an exception while flattening a record ends the weather loop.
CeHubWeatherFlatten_FailureEndsLoop ==
    /\ pc = "weather_flatten" /\ script = "cehub"
    /\ LET response_dict == CeHub_convert_weather_json_to_dict(cehub, weather_response)
           each_trial_df == IF response_dict.raised THEN Raised ELSE CeHubDataFrame(cehub, response_dict.value)
       IN  IF each_trial_df.raised
           THEN /\ failed_weather_trials' = failed_weather_trials + 1
                /\ pc' = "weather_done"
                /\ UNCHANGED weather_df
           ELSE /\ weather_df' = weather_df \o each_trial_df.value
                /\ pc' = IF weather_counter + 1 > Len(time_df) THEN "weather_done" ELSE "weather_request"
                /\ UNCHANGED failed_weather_trials
    /\ weather_counter' = weather_counter + 1
    /\ UNCHANGED <<script, s_date_offset, e_date_offset, start_date_offset, end_date_offset, precipitation_dom, temperature_dom, wind_dom, data_df, ini_offsets, time_args, time_df, weather_queries, weather_response, failed_weather_df, requests>>
    /\ UNCHANGED s_vars
    /\ UNCHANGED not_m

\* Mutant: on an exception while flattening, the columns gathered before it
\* are appended as a row.
CeHubWeatherFlatten_AppendsOnFailure ==
    /\ pc = "weather_flatten" /\ script = "cehub"
    /\ LET response_dict == CeHub_convert_weather_json_to_dict(cehub, weather_response)
           each_trial_df == IF response_dict.raised THEN Raised ELSE CeHubDataFrame(cehub, response_dict.value)
       IN  IF each_trial_df.raised
           THEN /\ failed_weather_trials' = failed_weather_trials + 1
                /\ weather_df' = Append(weather_df, (cehub.trial_col :> time_df[weather_counter].id) @@ (DATES :> Chars["20200101T0000"]))
           ELSE /\ weather_df' = weather_df \o each_trial_df.value
                /\ UNCHANGED failed_weather_trials
    /\ weather_counter' = weather_counter + 1
    /\ pc' = IF weather_counter + 1 > Len(time_df) THEN "weather_done" ELSE "weather_request"
    /\ UNCHANGED <<script, s_date_offset, e_date_offset, start_date_offset, end_date_offset, precipitation_dom, temperature_dom, wind_dom, data_df, ini_offsets, time_args, time_df, weather_queries, weather_response, failed_weather_df, requests>>
    /\ UNCHANGED s_vars
    /\ UNCHANGED not_m

\* Mutant: a record whose first request met a connection error is requested
\* a second time before the loop moves on.
CeHubWeatherFlatten_RetriesOnce ==
    /\ pc = "weather_flatten" /\ script = "cehub"
    /\ LET response_dict == CeHub_convert_weather_json_to_dict(cehub, weather_response)
           each_trial_df == IF response_dict.raised THEN Raised ELSE CeHubDataFrame(cehub, response_dict.value)
           retry == /\ requests[Len(requests)].exception = "ConnectionError"
                    /\ Len(requests) = 1 \/ requests[Len(requests) - 1].record # weather_counter
       IN  /\ IF each_trial_df.raised
              THEN /\ failed_weather_trials' = IF retry THEN failed_weather_trials ELSE failed_weather_trials + 1
                   /\ UNCHANGED weather_df
              ELSE /\ weather_df' = weather_df \o each_trial_df.value
                   /\ UNCHANGED failed_weather_trials
           /\ weather_counter' = IF retry THEN weather_counter ELSE weather_counter + 1
           /\ pc' = IF ~retry /\ weather_counter + 1 > Len(time_df) THEN "weather_done" ELSE "weather_request"
    /\ UNCHANGED <<script, s_date_offset, e_date_offset, start_date_offset, end_date_offset, precipitation_dom, temperature_dom, wind_dom, data_df, ini_offsets, time_args, time_df, weather_queries, weather_response, failed_weather_df, requests>>
    /\ UNCHANGED s_vars
    /\ UNCHANGED not_m

\* CE Hub lines 651-657: flatten and append the frame's rows; any exception
\* adds one to failed_weather_trials.
CeHubWeatherFlatten ==
    /\ pc = "weather_flatten" /\ script = "cehub"
    /\ LET response_dict == CeHub_convert_weather_json_to_dict(cehub, weather_response)
           each_trial_df == IF response_dict.raised THEN Raised ELSE CeHubDataFrame(cehub, response_dict.value)
       IN  IF each_trial_df.raised
           THEN /\ failed_weather_trials' = failed_weather_trials + 1
                /\ UNCHANGED weather_df
           ELSE /\ weather_df' = weather_df \o each_trial_df.value
                /\ UNCHANGED failed_weather_trials
    /\ weather_counter' = weather_counter + 1
    /\ pc' = IF weather_counter + 1 > Len(time_df) THEN "weather_done" ELSE "weather_request"
    /\ UNCHANGED <<script, s_date_offset, e_date_offset, start_date_offset, end_date_offset, precipitation_dom, temperature_dom, wind_dom, data_df, ini_offsets, time_args, time_df, weather_queries, weather_response, failed_weather_df, requests>>
    /\ UNCHANGED s_vars
    /\ UNCHANGED not_m

\* CE Hub lines 662-669: the Dates column of weather_df is rewritten, which
\* raises KeyError when weather_df has no such column and ends the script;
\* then the empty soil table and the failure counter.
CeHubModifyDates ==
    /\ pc = "weather_done" /\ script = "cehub"
    /\ IF \E r \in 1..Len(weather_df) : DATES \in DOMAIN weather_df[r]
       THEN /\ weather_df' = [r \in 1..Len(weather_df) |->
                                 [weather_df[r] EXCEPT ![DATES] = to_datetime(StrRemove(@, Chars["T0000"]))]]
            /\ pc' = "soil_request"
       ELSE /\ pc' = "crashed"
            /\ UNCHANGED weather_df
    /\ soil_df' = << >>
    /\ failed_soil_trials' = 0
    /\ soil_counter' = 1
    /\ UNCHANGED <<soil_queries, soil_response, written, requests>>
    /\ UNCHANGED w_vars
    /\ UNCHANGED not_m

\* Mutant: the soil loop goes through the records from the last to the first.
CeHubSoilRequest_LastRecordFirst ==
    /\ pc = "soil_request" /\ script = "cehub"
    /\ LET queries == << <<build_soil_query(START_DEPTH_0, END_DEPTH_30), build_soil_query(START_DEPTH_0, END_DEPTH_60)>> >>
       IN  /\ soil_queries' = queries
           /\ \E urlopen \in Attempts(MainCeHubSoilResults(time_df[Len(time_df) + 1 - soil_counter].id)) :
                  /\ soil_response' = get_cehub_data(urlopen)
                  /\ requests' = Append(requests, [category |-> "soil", record |-> Len(time_df) + 1 - soil_counter, queries |-> queries, exception |-> urlopen.exception, response |-> soil_response'])
    /\ pc' = "soil_flatten"
    /\ UNCHANGED <<soil_counter, soil_df, failed_soil_trials, written, weather_df>>
    /\ UNCHANGED w_vars
    /\ UNCHANGED not_m

\* CE Hub lines 672-676: the two soil queries are built for every record
\* and sent.
CeHubSoilRequest ==
    /\ pc = "soil_request" /\ script = "cehub"
    /\ LET queries == << <<build_soil_query(START_DEPTH_0, END_DEPTH_30), build_soil_query(START_DEPTH_0, END_DEPTH_60)>> >>
       IN  /\ soil_queries' = queries
           /\ \E urlopen \in Attempts(MainCeHubSoilResults(time_df[soil_counter].id)) :
                  /\ soil_response' = get_cehub_data(urlopen)
                  /\ requests' = Append(requests, [category |-> "soil", record |-> soil_counter, queries |-> queries, exception |-> urlopen.exception, response |-> soil_response'])
    /\ pc' = "soil_flatten"
    /\ UNCHANGED <<soil_counter, soil_df, failed_soil_trials, written, weather_df>>
    /\ UNCHANGED w_vars
    /\ UNCHANGED not_m

\* CE Hub lines 677-683: flatten and append the frame's rows; any exception
\* adds one to failed_soil_trials.
CeHubSoilFlatten ==
    /\ pc = "soil_flatten" /\ script = "cehub"
    /\ LET response_dict == CeHub_convert_soil_json_to_dict(cehub, soil_response)
           each_trial_df == IF response_dict.raised THEN Raised ELSE CeHubDataFrame(cehub, response_dict.value)
       IN  IF each_trial_df.raised
           THEN /\ failed_soil_trials' = failed_soil_trials + 1
                /\ UNCHANGED soil_df
           ELSE /\ soil_df' = soil_df \o each_trial_df.value
                /\ UNCHANGED failed_soil_trials
    /\ soil_counter' = soil_counter + 1
    /\ pc' = IF soil_counter + 1 > Len(time_df) THEN "write" ELSE "soil_request"
    /\ UNCHANGED <<soil_queries, soil_response, written, weather_df, requests>>
    /\ UNCHANGED w_vars
    /\ UNCHANGED not_m

\* CE Hub lines 688-692: the weather and the soil table are written; the
\* script writes no failed-records file.
CeHubWriteOutputs ==
    /\ pc = "write" /\ script = "cehub"
    /\ written' = [weather_data |-> <<weather_df>>, weather_data_failed |-> << >>,
                   soil_data |-> <<soil_df>>, soil_data_failed |-> << >>]
    /\ pc' = "done"
    /\ UNCHANGED <<soil_queries, soil_counter, soil_response, soil_df, failed_soil_trials, weather_df, requests>>
    /\ UNCHANGED w_vars
    /\ UNCHANGED not_m

Next ==
    \/ LoadProperties
    \/ CeHubClampOffsets
    \/ CeHubLoadTrialData
    \/ CeHubWeatherRequest
    \/ CeHubWeatherFlatten
    \/ CeHubModifyDates
    \/ CeHubSoilRequest
    \/ CeHubSoilFlatten
    \/ CeHubWriteOutputs

Init == MainStart /\ BuildIdle /\ FlatIdle /\ ConfigIdle /\ SetupIdle

Spec == Init /\ [][Next]_vars

\* ------------------------------------------------------------------------
\* SpecTime: the time-window derivation applied to bounded tables and offsets
\* ------------------------------------------------------------------------
TimeInit ==
    /\ script \in {"meteoblue", "cehub"}
    /\ pc = "time_data"
    /\ ini_offsets = [start_date_offset |-> 0, end_date_offset |-> 0]
    /\ \E s \in Offsets : \E e \in Offsets :
           IF script = "meteoblue"
           THEN /\ s_date_offset = <<s>> /\ e_date_offset = <<e>>
                /\ start_date_offset = << >> /\ end_date_offset = << >>
           ELSE /\ s_date_offset = << >> /\ e_date_offset = << >>
                /\ start_date_offset = <<s>> /\ end_date_offset = <<e>>
    /\ precipitation_dom = << >>
    /\ temperature_dom = << >>
    /\ wind_dom = << >>
    /\ data_df \in SeqsUpTo(TimeRows, MaxRecords)
    /\ RunNotStarted
    /\ BuildIdle
    /\ FlatIdle
    /\ ConfigIdle
    /\ SetupIdle

TimeNext == TimeData \/ CeHubLoadTrialData

SpecTime == TimeInit /\ [][TimeNext]_vars

BuildInit == BuildStart /\ FlatIdle /\ MainIdle /\ ConfigIdle /\ SetupIdle

FlatInit == FlatStart /\ BuildIdle /\ MainIdle /\ ConfigIdle /\ SetupIdle

ConfigInit == ConfigStart /\ BuildIdle /\ FlatIdle /\ MainIdle /\ SetupIdle

SetupInit == SetupStart /\ BuildIdle /\ FlatIdle /\ MainIdle /\ ConfigIdle

SpecBuild == BuildInit /\ [][BuildNext]_vars

SpecSetup == SetupInit /\ [][SetupNext]_vars

SpecConfig == ConfigInit /\ [][ConfigNext]_vars

SpecFlat == FlatInit /\ [][FlatNext]_vars

\* ------------------------------------------------------------------------
\* Claims about the query builders (checked under SpecBuild)
\* ------------------------------------------------------------------------
\* What the claim expects of one family: the map's entry for the country code
\* when there is one, the DEFAULT entry otherwise.
ExpectedSource(country_code, domains) ==
    IF country_code \in DOMAIN domains THEN domains[country_code] ELSE domains["DEFAULT"]

\* C1: for every country code and every domain map that holds a "DEFAULT"
\* entry, the source resolved by build_weather_data_query_best_dataset is the
\* map's value for the code when the code is a key, and the "DEFAULT" value
\* when it is not.
C1_ResolveFallsBackToDefault ==
    b_pc.weather =>
        /\ "DEFAULT" \in DOMAIN b_precipitation_domains =>
               b_resolved.domain_precipitation = ExpectedSource(b_country_code, b_precipitation_domains)
        /\ "DEFAULT" \in DOMAIN b_temperature_domains =>
               b_resolved.domain_temp = ExpectedSource(b_country_code, b_temperature_domains)
        /\ "DEFAULT" \in DOMAIN b_wind_domains =>
               b_resolved.domain_wind = ExpectedSource(b_country_code, b_wind_domains)

\* A call where one family resolves through DEFAULT and another through the
\* country's own entry, which differs from that map's DEFAULT.
C1_Witness ==
    /\ b_pc.weather
    /\ b_country_code \notin DOMAIN b_precipitation_domains
    /\ "DEFAULT" \in DOMAIN b_precipitation_domains
    /\ b_resolved.domain_precipitation = b_precipitation_domains["DEFAULT"]
    /\ b_country_code \in DOMAIN b_temperature_domains
    /\ "DEFAULT" \in DOMAIN b_temperature_domains
    /\ b_temperature_domains[b_country_code] # b_temperature_domains["DEFAULT"]
    /\ b_resolved.domain_temp = b_temperature_domains[b_country_code]

\* C3: the returned list has exactly 5 blocks, and block 1 is always from
\* NEMSGLOBAL and block 5 always from ERA5, whatever the country code and
\* the three maps are.
C3_FiveBlocksFixedEnds ==
    b_pc.weather =>
        /\ Len(b_weather_query) = 5
        /\ b_weather_query[1].domain = "NEMSGLOBAL"
        /\ b_weather_query[5].domain = "ERA5"

\* A query built for a country absent from the temperature map, whose
\* temperature block is from another source than block 5.
C3_Witness ==
    /\ b_pc.weather
    /\ b_country_code = "US"
    /\ b_weather_query[2].domain = "NEMS4"
    /\ b_weather_query[5].domain = "ERA5"

\* C4: block 2 carries the source resolved from the temperature map, block 3
\* the one from the precipitation map, block 4 the one from the wind map; the
\* domain of a family's block stays the same when the other two maps are
\* replaced by any other maps.
C4_FamilyBlocksFromOwnMap ==
    b_pc.weather =>
        /\ b_weather_query[2].domain = ResolveDomain(b_country_code, b_temperature_domains)
        /\ b_weather_query[3].domain = ResolveDomain(b_country_code, b_precipitation_domains)
        /\ b_weather_query[4].domain = ResolveDomain(b_country_code, b_wind_domains)
        /\ \A m1 \in DomainMaps : \A m2 \in DomainMaps :
               /\ build_weather_data_query_best_dataset(b_country_code, m1, b_temperature_domains, m2)[2].domain = b_weather_query[2].domain
               /\ build_weather_data_query_best_dataset(b_country_code, b_precipitation_domains, m1, m2)[3].domain = b_weather_query[3].domain
               /\ build_weather_data_query_best_dataset(b_country_code, m1, m2, b_wind_domains)[4].domain = b_weather_query[4].domain

\* A query whose temperature and precipitation blocks are from different
\* sources, each named by its own map.
C4_Witness ==
    /\ b_pc.weather
    /\ b_weather_query[2].domain = "ERA5"
    /\ b_weather_query[3].domain = "NEMS4"
    /\ b_weather_query[4].domain = "NEMS4"
    /\ b_temperature_domains # b_precipitation_domains

\* The <<code, aggregation>> pairs of a block's entries that have an aggregation.
AggregatedPairs(block) ==
    {<<block.codes[i].code, block.codes[i].aggregation>> :
        i \in {j \in 1..Len(block.codes) : "aggregation" \in DOMAIN block.codes[j]}}

\* The <<block index, code>> pairs of a query's entries without an aggregation.
UnaggregatedEntries(query) ==
    UNION {{<<b, query[b].codes[i].code>> :
               i \in {j \in 1..Len(query[b].codes) : "aggregation" \notin DOMAIN query[b].codes[j]}} :
           b \in 1..Len(query)}

\* C5: blocks 1 to 4 are daily and have no transformation; block 5 is hourly
\* with exactly one transformation, aggregateDaily by mean; the temperature
\* block holds exactly max/min/mean of the temperature code, the
\* precipitation block one sum entry, the wind block speed max/min/mean and
\* one wind-direction entry; wind direction and UV are the only entries
\* without an aggregation.
C5_BlockShapes ==
    b_pc.weather =>
        /\ \A i \in 1..4 :
               /\ b_weather_query[i].timeResolution = "daily"
               /\ "transformations" \notin DOMAIN b_weather_query[i]
        /\ b_weather_query[5].timeResolution = "hourly"
        /\ b_weather_query[5].transformations = << [type |-> "aggregateDaily", aggregation |-> "mean"] >>
        /\ Len(b_weather_query[2].codes) = 3
        /\ AggregatedPairs(b_weather_query[2]) = {<<TEMP, "max">>, <<TEMP, "min">>, <<TEMP, "mean">>}
        /\ Len(b_weather_query[3].codes) = 1
        /\ AggregatedPairs(b_weather_query[3]) = {<<PRECIPITATION, "sum">>}
        /\ Len(b_weather_query[4].codes) = 4
        /\ AggregatedPairs(b_weather_query[4]) = {<<WIND_SPEED, "max">>, <<WIND_SPEED, "min">>, <<WIND_SPEED, "mean">>}
        /\ UnaggregatedEntries(b_weather_query) = {<<4, WIND_DIRECTION>>, <<5, UV_MEAN>>}

\* A built query whose wind block ends with the wind-direction entry.
C5_Witness ==
    /\ b_pc.weather
    /\ b_weather_query[4].codes[4].code = WIND_DIRECTION
    /\ b_weather_query[5].codes[1].code = UV_MEAN

\* A soil query with the depth fields of its entries dropped.
WithoutDepths(query) ==
    [domain |-> query.domain,
     codes |-> [i \in 1..Len(query.codes) |-> [code |-> query.codes[i].code, level |-> query.codes[i].level]]]

\* C6: build_soil_query returns one SOILGRIDS2 block with exactly eleven
\* codes; ten have level "aggregated" and startDepth/endDepth equal to the
\* arguments; the organic-carbon-stocks entry has level "0-30 cm" and no
\* depth fields; build_soil_query(0,30) and build_soil_query(0,60) are equal
\* once the depth fields are dropped, and their stocks entries are equal.
C6_SoilQueryShape ==
    b_pc.soil =>
        LET codes == b_soil_query.codes
            scaled == {i \in 1..Len(codes) : codes[i].level = "aggregated"}
            stocks == {i \in 1..Len(codes) : codes[i].code = ORGANIC_CARBON_STOCKS}
        IN  /\ b_soil_query.domain = "SOILGRIDS2"
            /\ Len(codes) = 11
            /\ Cardinality({codes[i].code : i \in 1..Len(codes)}) = 11
            /\ Cardinality(scaled) = 10
            /\ \A i \in scaled :
                   /\ DOMAIN codes[i] = {"code", "level", "startDepth", "endDepth"}
                   /\ codes[i].startDepth = b_start_depth
                   /\ codes[i].endDepth = b_end_depth
            /\ Cardinality(stocks) = 1
            /\ \A i \in stocks : codes[i] = [code |-> ORGANIC_CARBON_STOCKS, level |-> "0-30 cm"]
            /\ WithoutDepths(build_soil_query(0, 30)) = WithoutDepths(b_soil_query)
            /\ WithoutDepths(build_soil_query(0, 60)) = WithoutDepths(b_soil_query)
            /\ \A i \in stocks : build_soil_query(0, 30).codes[i] = build_soil_query(0, 60).codes[i]

\* A soil query built for the band (0, 60): its stocks entry keeps "0-30 cm".
C6_Witness ==
    /\ b_pc.soil
    /\ b_start_depth = 0
    /\ b_end_depth = 60
    /\ b_soil_query.codes[7].level = "0-30 cm"
    /\ b_soil_query.codes[1].endDepth = 60

\* ------------------------------------------------------------------------
\* Claims about the flatteners (checked under SpecFlat)
\* ------------------------------------------------------------------------
SeqRange(q) == {q[i] : i \in 1..Len(q)}

\* The codes of the response handed to the flattener.
FlatCodeSet ==
    IF f_result = << >> THEN {}
    ELSE IF f_script = "meteoblue"
         THEN UNION {SeqRange(g.codes) : g \in SeqRange(f_result[1].geometries)}
         ELSE UNION {SeqRange(g.codes) : g \in SeqRange(f_result[1])}

\* The variable name of a returned code: looked up in the codes list by the
\* Meteoblue extractor, read from the response by the CE Hub script.
FlatVariable(c) ==
    IF f_script = "meteoblue" THEN lookup_variable_by_code(f_self.codes_lst, c.code) ELSE c.variable

\* A returned code that carries an aggregation.
IsAggregated(c) == "aggregation" \in DOMAIN c /\ c.aggregation \notin {<< >>, NoneStr}

Underscored(name) == [i \in 1..Len(name) |-> IF name[i] = " " THEN "_" ELSE name[i]]

FirstUpper(word) == <<PyUpper(word[1])>> \o SubSeq(word, 2, Len(word))

ExpectedWeatherColumn(variable, aggregation, unit) ==
    Underscored(variable) \o <<"_", "(">> \o FirstUpper(aggregation) \o <<")", "_", "(">> \o unit \o <<")">>

FlatKeyColumns == {Chars["id"], Chars["lat"], Chars["lon"], Chars["Dates"]}

\* C9: weather flattening names the column of each returned aggregated code
\* as the variable name with spaces replaced by underscores, then "_(", the
\* aggregation with its first letter upper-cased, ")_(", the unit and ")";
\* variable "Temperature", aggregation "mean", unit "C" gives
\* "Temperature_(Mean)_(C)". When every returned code is aggregated the
\* mapping has no other columns besides id, latitude, longitude and dates.
C9_WeatherColumnNames ==
    (f_pc = "done" /\ f_category = "weather" /\ ~f_out.raised) =>
        /\ \A c \in FlatCodeSet : IsAggregated(c) =>
               ExpectedWeatherColumn(FlatVariable(c), c.aggregation, c.unit) \in DOMAIN f_out.value
        /\ \A c \in FlatCodeSet :
               (/\ IsAggregated(c)
                /\ FlatVariable(c) = Chars["Temperature"]
                /\ c.aggregation = Chars["mean"]
                /\ c.unit = Chars["C"]) => Chars["Temperature_(Mean)_(C)"] \in DOMAIN f_out.value
        /\ (\A c \in FlatCodeSet : IsAggregated(c)) =>
               DOMAIN f_out.value \subseteq
                   FlatKeyColumns \cup {ExpectedWeatherColumn(FlatVariable(c), c.aggregation, c.unit) : c \in FlatCodeSet}

\* A flattened weather response with a temperature mean and a wind speed mean.
C9_Witness ==
    /\ f_pc = "done" /\ f_category = "weather" /\ ~f_out.raised
    /\ Chars["Temperature_(Mean)_(C)"] \in DOMAIN f_out.value
    /\ Chars["Wind_Speed_(Mean)_(km/h)"] \in DOMAIN f_out.value

ExpectedSoilColumn(variable, middle, unit) ==
    Underscored(variable) \o <<"_", "(">> \o middle \o <<")", "_", "(">> \o unit \o <<")">>

\* C10: soil flattening branches on the returned level: for level
\* "aggregated" the column is the variable (spaces to underscores), "_(",
\* startDepth, "-", endDepth, ")_(", unit, ")", e.g. "Clay_content_(0-30)_(%)";
\* for any other level the middle segment is the raw level string, e.g.
\* "Organic_carbon_stocks_(0-30 cm)_(%)".
C10_SoilColumnNames ==
    (f_pc = "done" /\ f_category = "soil" /\ ~f_out.raised) =>
        /\ \A c \in FlatCodeSet :
               IF c.level = Chars["aggregated"]
               THEN ExpectedSoilColumn(FlatVariable(c), PyStrInt(c.startDepth) \o <<"-">> \o PyStrInt(c.endDepth), c.unit) \in DOMAIN f_out.value
               ELSE ExpectedSoilColumn(FlatVariable(c), c.level, c.unit) \in DOMAIN f_out.value
        /\ \A c \in FlatCodeSet :
               (/\ FlatVariable(c) = Chars["Clay content"]
                /\ c.level = Chars["aggregated"]
                /\ c.startDepth = 0 /\ c.endDepth = 30
                /\ c.unit = Chars["%"]) => Chars["Clay_content_(0-30)_(%)"] \in DOMAIN f_out.value
        /\ \A c \in FlatCodeSet :
               (/\ FlatVariable(c) = Chars["Organic carbon stocks"]
                /\ c.level = Chars["0-30 cm"]
                /\ c.unit = Chars["%"]) => Chars["Organic_carbon_stocks_(0-30 cm)_(%)"] \in DOMAIN f_out.value
        /\ DOMAIN f_out.value \subseteq
               FlatKeyColumns
               \cup {ExpectedSoilColumn(FlatVariable(c), c.level, c.unit) : c \in {d \in FlatCodeSet : d.level # Chars["aggregated"]}}
               \cup {ExpectedSoilColumn(FlatVariable(c), PyStrInt(c.startDepth) \o <<"-">> \o PyStrInt(c.endDepth), c.unit) :
                         c \in {d \in FlatCodeSet : d.level = Chars["aggregated"]}}

\* A flattened soil response with one aggregated and one level-named code.
C10_Witness ==
    /\ f_pc = "done" /\ f_category = "soil" /\ ~f_out.raised
    /\ Chars["Clay_content_(0-30)_(%)"] \in DOMAIN f_out.value
    /\ Chars["Organic_carbon_stocks_(0-30 cm)_(%)"] \in DOMAIN f_out.value

\* ------------------------------------------------------------------------
\* Claims about the time windows and the run
\* ------------------------------------------------------------------------

\* The calendar day a timestamp falls on, stated by its bounds.
IsDayOf(day, timestamp) ==
    day * TicksPerDay <= timestamp /\ timestamp < (day + 1) * TicksPerDay

\* t is the earliest (latest) of the row's dates of interest.
IsEarliest(t, dates) ==
    (\E k \in 1..Len(dates) : dates[k] = t) /\ (\A k \in 1..Len(dates) : t <= dates[k])

IsLatest(t, dates) ==
    (\E k \in 1..Len(dates) : dates[k] = t) /\ (\A k \in 1..Len(dates) : t >= dates[k])

\* The window row the derivation owes an input row.
IsWindowOf(w, row, start_offset, end_offset) ==
    /\ w.id = row.id /\ w.lat = row.lat /\ w.lon = row.lon /\ w.country_code = row.country_code
    /\ \E lo \in DateValues : \E hi \in DateValues :
           /\ IsEarliest(lo, row.dates)
           /\ IsLatest(hi, row.dates)
           /\ IsDayOf(w.Start_Date, lo + start_offset * TicksPerDay)
           /\ IsDayOf(w.End_Date, hi + end_offset * TicksPerDay)

\* C7: every record gets a window whose Start_Date is the calendar day of
\* its earliest date of interest plus start_date_offset days and whose
\* End_Date is the calendar day of its latest date of interest plus
\* end_date_offset days, in time_data and in load_trial_data; and every
\* window row is the window of some record.
C7_WindowIsMinMaxPlusOffsets ==
    pc \notin {"idle", "clamp", "validate", "exited", "time_data"} =>
        /\ \A i \in 1..Len(data_df) : \E j \in 1..Len(time_df) :
               IsWindowOf(time_df[j], data_df[i], time_args.start_date_offset, time_args.end_date_offset)
        /\ \A j \in 1..Len(time_df) : \E i \in 1..Len(data_df) :
               IsWindowOf(time_df[j], data_df[i], time_args.start_date_offset, time_args.end_date_offset)

\* A table of two records with different windows was derived with a negative
\* start offset and a positive end offset, and one record's earliest date
\* carries a time of day.
C7_Witness ==
    /\ pc \notin {"idle", "clamp", "validate", "exited", "time_data"}
    /\ Len(data_df) = 2 /\ Len(time_df) = 2
    /\ time_args.start_date_offset < 0 /\ time_args.end_date_offset > 0
    /\ \E i \in 1..Len(data_df) :
           /\ data_df[i].dates[1] > data_df[i].dates[2]
           /\ data_df[i].dates[2] % TicksPerDay # 0
           /\ time_df[i].Start_Date < time_df[i].End_Date - 2

\* The offset the derivation is owed for an offset written in the ini file.
ClampedStart(offset) == IF offset > 0 THEN 0 ELSE offset

ClampedEnd(offset) == IF offset < 0 THEN 0 ELSE offset

\* The run is past the call that derives the time windows.
WindowsDerived ==
    pc \in {"value_error", "weather_request", "weather_flatten", "weather_done", "soil_request", "soil_flatten", "write", "done", "crashed"}

\* C8: once the time windows are derived in a run, the offsets the
\* derivation was given satisfy start offset <= 0 and end offset >= 0: they
\* are the offsets of the ini file, with a start offset > 0 and an end
\* offset < 0 replaced by 0.
C8_OffsetsUsedAreClamped ==
    WindowsDerived =>
        /\ time_args.start_date_offset <= 0 /\ time_args.end_date_offset >= 0
        /\ time_args.start_date_offset = ClampedStart(ini_offsets.start_date_offset)
        /\ time_args.end_date_offset = ClampedEnd(ini_offsets.end_date_offset)

\* A CE Hub run whose ini file has a start offset of 1 and an end offset of
\* -1 has derived the windows of two records with offsets 0 and 0, and the
\* first record's window starts on the day of its earliest date of interest.
C8_Witness ==
    /\ script = "cehub" /\ pc = "done"
    /\ ini_offsets.start_date_offset = 1 /\ ini_offsets.end_date_offset = -1
    /\ time_args.start_date_offset = 0 /\ time_args.end_date_offset = 0
    /\ Len(time_df) = 2
    /\ \E k \in 1..Len(data_df[1].dates) : IsDayOf(time_df[1].Start_Date, data_df[1].dates[k])

\* C2: a weather request is only issued for a record whose country code or
\* "DEFAULT" is in each of the three maps the query is built from, and no
\* block of an issued query carries an absent domain.
C2_MissingDefaultIssuesNoRequest ==
    \A i \in 1..Len(requests) :
        /\ \A domains \in {precipitation_dom, temperature_dom, wind_dom} :
               time_df[requests[i].record].country_code \in DOMAIN domains
               \/ DEFAULT_upper \in DOMAIN domains
        /\ \A b \in 1..Len(requests[i].queries[1]) :
               requests[i].queries[1][b].domain # None

\* ------------------------------------------------------------------------
\* Claims about flattening a response
\* ------------------------------------------------------------------------

\* The returned codes for wind direction, the weather variable requested
\* without an aggregation.
WindDirectionCodes == {c \in FlatCodeSet : FlatVariable(c) = Chars["Wind Direction"]}

\* C11: weather flattening of a response with a wind-direction code, which
\* has no aggregation, succeeds and names the code's column with the raw
\* level string as middle segment, "Wind_Direction_(10 m above gnd)_(deg)".
C11_UnaggregatedWeatherUsesLevel ==
    (f_pc = "done" /\ f_category = "weather" /\ WindDirectionCodes # {}) =>
        /\ ~f_out.raised
        /\ \A c \in WindDirectionCodes :
               ExpectedSoilColumn(FlatVariable(c), c.level, c.unit) \in DOMAIN f_out.value

\* The column the flattener names for a returned code.
FlatColumn(c) ==
    IF f_category = "weather"
    THEN ExpectedWeatherColumn(FlatVariable(c), PyStr(c.aggregation), c.unit)
    ELSE IF c.level = Chars["aggregated"]
         THEN ExpectedSoilColumn(FlatVariable(c), PyStrInt(c.startDepth) \o <<"-">> \o PyStrInt(c.endDepth), c.unit)
         ELSE ExpectedSoilColumn(FlatVariable(c), c.level, c.unit)

\* The data array of a returned code's first time interval.
FlatData(c) ==
    IF f_script = "meteoblue" THEN c.timeIntervals[1].data ELSE c.dataPerTimeInterval[1].data

\* The first element of a data array, as the value a column would hold.
FirstElement(data) == IF f_script = "meteoblue" THEN JsonNum(data[1]) ELSE data[1]

\* The flattening returned and every returned code has its own column.
FlatSucceededDistinct ==
    /\ f_pc = "done" /\ ~f_out.raised
    /\ \A c \in FlatCodeSet : f_category = "weather" => "aggregation" \in DOMAIN c
    /\ \A c1 \in FlatCodeSet : \A c2 \in FlatCodeSet : FlatColumn(c1) = FlatColumn(c2) => c1 = c2

\* C12: after any of the four flatteners returned, the column of every
\* returned code holds exactly the first element of the data array of the
\* code's first time interval, whatever the length of that array.
C12_FirstElementStored ==
    FlatSucceededDistinct =>
        \A c \in FlatCodeSet : f_out.value[FlatColumn(c)] = FirstElement(FlatData(c))

\* ------------------------------------------------------------------------
\* Claims about the request loops
\* ------------------------------------------------------------------------

\* The entries of the request log for one category, in the order sent.
RequestsOf(category) ==
    LET OfCategory(e) == e.category = category
    IN  SelectSeq(requests, OfCategory)

\* What becomes of the response a log entry holds: the frame it flattens
\* to, or the exception raised on the way.
RecordFrame(e) ==
    LET d == IF e.category = "weather"
             THEN CeHub_convert_weather_json_to_dict(cehub, e.response)
             ELSE CeHub_convert_soil_json_to_dict(cehub, e.response)
    IN  IF d.raised THEN Raised ELSE CeHubDataFrame(cehub, d.value)

\* Where the run stands in the loop of a category: before it, in it, after
\* it. A run that stopped on the KeyError of line 663 is past its weather
\* loop and never enters its soil loop.
LoopStarted(category) ==
    IF category = "weather"
    THEN pc \in {"weather_request", "weather_flatten", "weather_done", "soil_request", "soil_flatten", "write", "done", "crashed"}
    ELSE pc \in {"soil_request", "soil_flatten", "write", "done"}

LoopEnded(category) ==
    IF category = "weather"
    THEN pc \in {"weather_done", "soil_request", "soil_flatten", "write", "done", "crashed"}
    ELSE pc \in {"write", "done"}

\* The records the loop of a category is through with, and those of them
\* whose request returned nothing or whose response did not flatten.
RecordsDone(category) ==
    LET counter == IF category = "weather" THEN weather_counter ELSE soil_counter
    IN  IF LoopEnded(category) THEN 1..Len(time_df) ELSE 1..(counter - 1)

RecordsFailed(category) ==
    {i \in RecordsDone(category) : RecordFrame(RequestsOf(category)[i]).raised}

\* The result table of a category.
ResultTable(category) == IF category = "weather" THEN weather_df ELSE soil_df

\* The records that have a row in the result table of a category.
Contributed(category) ==
    {i \in 1..Len(time_df) :
        \E r \in 1..Len(ResultTable(category)) : ResultTable(category)[r][Chars["id"]] = time_df[i].id}

\* The failures the script has counted for a category.
FailedCount(category) ==
    IF category = "weather" THEN failed_weather_trials ELSE failed_soil_trials

\* C13: in the weather and the soil loop, the requests are sent for records
\* 1, 2, ... in order, one each; the failures counted are exactly the
\* records whose request returned nothing or whose flattening raised, one
\* count each; every record after a failed one is still requested and
\* flattened, and a loop that ended has visited all records.
C13_PerRecordFailureIsolation ==
    \A category \in {"weather", "soil"} :
        LoopStarted(category) =>
            /\ \A i \in 1..Len(RequestsOf(category)) : RequestsOf(category)[i].record = i
            /\ Len(RequestsOf(category)) \in {Cardinality(RecordsDone(category)), Cardinality(RecordsDone(category)) + 1}
            /\ LoopEnded(category) => Len(RequestsOf(category)) = Len(time_df)
            /\ FailedCount(category) = Cardinality(RecordsFailed(category))

\* A CE Hub run of two records ended: in both loops the first record's
\* request met a connection error and returned nothing, one failure was
\* counted, and the second record was requested and extracted.
C13_Witness ==
    /\ script = "cehub" /\ pc = "done" /\ Len(time_df) = 2
    /\ \A category \in {"weather", "soil"} :
           /\ RequestsOf(category)[1].exception = "ConnectionError"
           /\ RequestsOf(category)[1].response = << >>
           /\ RequestsOf(category)[2].record = 2
           /\ RecordsFailed(category) = {1}
           /\ Contributed(category) = {2}
    /\ failed_weather_trials = 1 /\ failed_soil_trials = 1

\* C14: when the loop of a category has ended, every record either has
\* rows in the result table or is a failed one, never both and never
\* neither: the number of records with a result plus the number of failures
\* counted is the number of records.
C14_SucceededPlusFailedIsAll ==
    \A category \in {"weather", "soil"} :
        LoopEnded(category) =>
            Cardinality(Contributed(category)) + FailedCount(category) = Len(time_df)

\* The rows of the result table of a category that carry a record's id.
RowsOfRecord(category, i) ==
    LET OfRecord(row) == row[Chars["id"]] = time_df[i].id
    IN  SelectSeq(ResultTable(category), OfRecord)

\* C15: for every record a loop is through with, if flattening its
\* response raised (after any number of columns were already gathered) the
\* result table holds no row of the record; otherwise it holds the rows of
\* the record's whole frame, each with every column of the frame.
C15_NoPartialRows ==
    \A category \in {"weather", "soil"} :
        LoopStarted(category) =>
            \A i \in RecordsDone(category) :
                LET frame == RecordFrame(RequestsOf(category)[i])
                    rows == RowsOfRecord(category, i)
                IN  IF frame.raised THEN rows = << >>
                    ELSE /\ Len(rows) = Len(frame.value)
                         /\ \A r \in 1..Len(rows) : DOMAIN rows[r] = DOMAIN frame.value[r]

\* A CE Hub run of two records ended: flattening the first record's
\* weather response raised at its second code, after the temperature column
\* was gathered, and the weather table holds the second record's rows only,
\* each with its temperature column.
C15_Witness ==
    /\ script = "cehub" /\ pc = "done" /\ Len(time_df) = 2
    /\ RequestsOf("weather")[1].response # << >>
    /\ Len(RequestsOf("weather")[1].response[1]) = 1
    /\ Len(RequestsOf("weather")[1].response[1][1].codes) = 2
    /\ "aggregation" \in DOMAIN RequestsOf("weather")[1].response[1][1].codes[1]
    /\ "aggregation" \notin DOMAIN RequestsOf("weather")[1].response[1][1].codes[2]
    /\ RecordFrame(RequestsOf("weather")[1]).raised
    /\ failed_weather_trials = 1
    /\ Contributed("weather") = {2}
    /\ \A r \in 1..Len(weather_df) : Chars["Temperature_(Mean)_(C)"] \in DOMAIN weather_df[r]

\* The run is over: it wrote its outputs or stopped on an exception.
RunEnded == pc \in {"done", "crashed", "value_error"}

\* C17: there is never more than one transport call for a record and a
\* category, whatever the calls end in; a run that is over has made exactly
\* one weather call and one soil call for each of the deduplicated records,
\* in record order, and has sent the same soil query for all records.
C17_OneCallPerRecordAndCategory ==
    /\ \A i \in 1..Len(requests) : \A j \in 1..Len(requests) :
           (requests[i].category = requests[j].category /\ requests[i].record = requests[j].record) => i = j
    /\ RunEnded =>
           /\ \A category \in {"weather", "soil"} :
                  /\ Len(RequestsOf(category)) = Len(time_df)
                  /\ \A i \in 1..Len(time_df) : RequestsOf(category)[i].record = i
           /\ \A i \in 1..Len(time_df) : RequestsOf("soil")[i].queries = RequestsOf("soil")[1].queries

\* C18: a record's request that met a connection error is sent a second
\* time: the first call for a record and category that ends in
\* ConnectionError is followed, before the loop moves on, by a call with the
\* same category, record and queries.
C18_RetryAfterConnectionError ==
    \A i \in 1..Len(requests) :
        (/\ requests[i].exception = "ConnectionError"
         /\ i = 1 \/ <<requests[i - 1].category, requests[i - 1].record>> # <<requests[i].category, requests[i].record>>
         /\ i < Len(requests) \/ pc \in {"weather_done", "write", "done", "crashed"}) =>
            /\ i < Len(requests)
            /\ requests[i + 1].category = requests[i].category
            /\ requests[i + 1].record = requests[i].record
            /\ requests[i + 1].queries = requests[i].queries

\* C18, as the code has it: a request that met a connection error is not
\* sent again. The call returns None, no other call is made for the same
\* record and category, and once the loop is through with the record it is
\* a failed one and is among the counted failures.
C18_NoRetryAfterConnectionError ==
    \A i \in 1..Len(requests) :
        requests[i].exception = "ConnectionError" =>
            /\ requests[i].response = << >>
            /\ \A j \in 1..Len(requests) :
                   (requests[j].category = requests[i].category /\ requests[j].record = requests[i].record) => j = i
            /\ requests[i].record \in RecordsDone(requests[i].category) =>
                   /\ requests[i].record \in RecordsFailed(requests[i].category)
                   /\ FailedCount(requests[i].category) >= 1

\* A CE Hub run of two records ended: the first record's soil request met a
\* connection error, the next call was the second record's, and one soil
\* failure is counted.
C18_Witness ==
    /\ script = "cehub" /\ pc = "done" /\ Len(time_df) = 2
    /\ RequestsOf("soil")[1].exception = "ConnectionError"
    /\ RequestsOf("soil")[2].record = 2 /\ RequestsOf("soil")[2].exception = "none"
    /\ Len(RequestsOf("soil")) = 2
    /\ failed_soil_trials = 1

\* ------------------------------------------------------------------------
\* Claim about the table the request loops iterate over
\* ------------------------------------------------------------------------
\* The six values a request is made from.
SixValues(row) == <<row.id, row.lat, row.lon, row.country_code, row.Start_Date, row.End_Date>>

\* The six values of the k-th input row, under the offsets the table was
\* derived with.
InputSixValues(k) ==
    SixValues(WindowRow(data_df[k], time_args.start_date_offset, time_args.end_date_offset))

\* The requests of a category made for rows of time_df with the given six values.
RequestsFor(category, six) ==
    {r \in 1..Len(requests) :
        requests[r].category = category /\ SixValues(time_df[requests[r].record]) = six}

\* C20: no two rows of time_df agree on (id, latitude, longitude, country
\* code, Start_Date, End_Date); every input row has exactly one row of
\* time_df with its six values; a category never makes more than one
\* request for the same six values, and when the run has written its outputs
\* each category has made exactly one request for the six values of every
\* input row.
C20_NoDuplicateRequestRows ==
    WindowsDerived =>
        /\ \A i \in 1..Len(time_df) : \A j \in 1..Len(time_df) :
               SixValues(time_df[i]) = SixValues(time_df[j]) => i = j
        /\ \A k \in 1..Len(data_df) :
               Cardinality({i \in 1..Len(time_df) : SixValues(time_df[i]) = InputSixValues(k)}) = 1
        /\ \A k \in 1..Len(data_df) : \A category \in {"weather", "soil"} :
               Cardinality(RequestsFor(category, InputSixValues(k))) <= 1
        /\ pc = "done" =>
               \A k \in 1..Len(data_df) : \A category \in {"weather", "soil"} :
                   Cardinality(RequestsFor(category, InputSixValues(k))) = 1

\* A finished CE Hub run whose input held two rows that differ in their
\* date columns and agree on the six values: one row was iterated over and
\* one request was made for it in each category.
C20_Witness ==
    /\ script = "cehub" /\ pc = "done"
    /\ Len(data_df) = 2 /\ data_df[1] # data_df[2]
    /\ InputSixValues(1) = InputSixValues(2)
    /\ Len(time_df) = 1
    /\ Len(requests) = 2 /\ requests[1].category = "weather" /\ requests[2].category = "soil"

\* ------------------------------------------------------------------------
\* Claim about the rows a record contributes
\* ------------------------------------------------------------------------
\* pd.DataFrame(response_dict) of the mapping the flattener returned.
FlatFrame ==
    IF f_script = "meteoblue" THEN MbDataFrame(f_self, f_out.value) ELSE CeHubDataFrame(f_self, f_out.value)

\* C22: the frame made of a flattened response, whose rows are appended to
\* the category's result table, has exactly one row, whatever the number of
\* time steps and the length of the data arrays.
C22_OneRowPerRecord ==
    (f_pc # "ready" /\ ~f_out.raised /\ DOMAIN f_out.value # {} /\ ~FlatFrame.raised) =>
        Len(FlatFrame.value) = 1

\* ------------------------------------------------------------------------
\* Claim about weather failures and the rest of the run
\* ------------------------------------------------------------------------
\* C24: whichever records failed in the weather loop, all of them included,
\* the run does not end between the weather loop and the output files: once
\* the weather loop is over the run is in the soil loop, with no record
\* skipped, or at the step that writes the outputs, or past it.
C24_WeatherFailuresNeverEscalate ==
    (LoopEnded("weather") /\ RecordsFailed("weather") # {}) =>
        /\ pc # "crashed"
        /\ pc \in {"write", "done"} => Len(RequestsOf("soil")) = Len(time_df)

\* ------------------------------------------------------------------------
\* Claim about the window and the dates of interest
\* ------------------------------------------------------------------------
\* The window row holds the timestamp: it is not before the start of
\* Start_Date and before the end of End_Date.
WindowHolds(w, timestamp) ==
    w.Start_Date * TicksPerDay <= timestamp /\ timestamp < (w.End_Date + 1) * TicksPerDay

\* C25: when the table was derived with start_date_offset <= 0 and
\* end_date_offset >= 0, the window of every record holds each of the
\* record's dates of interest and its Start_Date is not after its End_Date;
\* so a window with Start_Date > End_Date comes from offsets of another sign.
C25_WindowHoldsDatesOfInterest ==
    (pc \notin {"idle", "clamp", "validate", "exited", "time_data"}
     /\ time_args.start_date_offset <= 0 /\ time_args.end_date_offset >= 0) =>
        /\ \A i \in 1..Len(data_df) : \A j \in 1..Len(time_df) :
               IsWindowOf(time_df[j], data_df[i], time_args.start_date_offset, time_args.end_date_offset) =>
                   \A k \in 1..Len(data_df[i].dates) : WindowHolds(time_df[j], data_df[i].dates[k])
        /\ \A j \in 1..Len(time_df) : time_df[j].Start_Date <= time_df[j].End_Date

\* A table was derived with a negative start offset and a positive end
\* offset from a record whose two dates of interest fall on different days,
\* the later one first.
C25_Witness ==
    /\ pc \notin {"idle", "clamp", "validate", "exited", "time_data"}
    /\ time_args.start_date_offset < 0 /\ time_args.end_date_offset > 0
    /\ Len(time_df) >= 1
    /\ \E i \in 1..Len(data_df) :
           /\ DateOf(data_df[i].dates[1]) > DateOf(data_df[i].dates[2])
           /\ IsWindowOf(time_df[1], data_df[i], time_args.start_date_offset, time_args.end_date_offset)

\* ------------------------------------------------------------------------
\* Claim about the order of the requests
\* ------------------------------------------------------------------------
\* C26: the requests are made one at a time and in order. A step adds at
\* most one call to the log and leaves the earlier calls as they are; a
\* call has returned, with its response or with None, before the next step;
\* within a category the calls follow the rows of time_df; and every weather
\* call comes before every soil call.
C26_RequestsSequentialAndOrdered ==
    /\ [](/\ pc = "weather_flatten" => requests[Len(requests)].response = weather_response
          /\ pc = "soil_flatten" => requests[Len(requests)].response = soil_response
          /\ \A i \in 1..Len(requests) : \A j \in 1..Len(requests) :
                 i < j =>
                     /\ requests[i].category = "soil" => requests[j].category = "soil"
                     /\ requests[i].category = requests[j].category => requests[i].record < requests[j].record)
    /\ [][/\ Len(requests') <= Len(requests) + 1
          /\ SubSeq(requests', 1, Len(requests)) = requests]_vars

\* A CE Hub run of two records ended: the two weather calls came first,
\* then the two soil calls, each pair in table order.
C26_Witness ==
    /\ script = "cehub" /\ pc = "done" /\ Len(time_df) = 2 /\ Len(requests) = 4
    /\ <<requests[1].category, requests[1].record>> = <<"weather", 1>>
    /\ <<requests[2].category, requests[2].record>> = <<"weather", 2>>
    /\ <<requests[3].category, requests[3].record>> = <<"soil", 1>>
    /\ <<requests[4].category, requests[4].record>> = <<"soil", 2>>

\* ------------------------------------------------------------------------
\* Claims about the domain maps read from the ini file
\* ------------------------------------------------------------------------
\* The pieces of a value between its commas, stated by their positions:
\* <<a, b>> bounds a piece when no comma lies in a..b and a comma or an end
\* of the value lies on either side.
IsToken(token, value) ==
    \E a \in 1..(Len(value) + 1) : \E b \in (a - 1)..Len(value) :
        /\ token = SubSeq(value, a, b)
        /\ \A i \in a..b : value[i] # ","
        /\ a = 1 \/ value[a - 1] = ","
        /\ b = Len(value) \/ value[b + 1] = ","

\* The lines of the section that list the token.
LinesListing(token) == {i \in 1..Len(c_section) : IsToken(token, c_section[i].value)}

\* C28: every value of the map ConfigUtil.get_all_keys_properties returns
\* is a key of the section exactly as written, the key of a line that lists
\* the country; as it is for PropertyUtil.get_all_keys_properties.
C28_KeyCasePreserved ==
    (c_pc = "done" /\ ~c_out.raised) =>
        \A token \in DOMAIN c_out.value :
            \E i \in LinesListing(token) : c_out.value[token] = c_section[i].key

\* C29: the keys of the returned map are exactly the pieces between commas
\* of the values of the section, and each piece is mapped to the key, as
\* written, of the last line that lists it.
C29_SectionInverted ==
    (c_pc = "done" /\ ~c_out.raised) =>
        /\ \A token \in DOMAIN c_out.value : LinesListing(token) # {}
        /\ \A i \in 1..Len(c_section) : \A a \in 1..(Len(c_section[i].value) + 1) : \A b \in (a - 1)..Len(c_section[i].value) :
               LET token == SubSeq(c_section[i].value, a, b)
               IN  IsToken(token, c_section[i].value) =>
                       /\ token \in DOMAIN c_out.value
                       /\ c_out.value[token] = c_section[SetMax(LinesListing(token))].key

\* ------------------------------------------------------------------------
\* Claim about the interactive set-up of the ini file
\* ------------------------------------------------------------------------
\* The positions of the log where the option was typed, and where 'clear' was.
EntriesOf(o) == {i \in 1..Len(typed) : typed[i].o = o}

\* The options of the user-specific properties, which 'clear' empties.
UserSpecificOptions ==
    {o \in DOMAIN OptionProperty :
        OptionProperty[o] \in DOMAIN filepath_sec_clear_lst \cup DOMAIN meteoblue_sec_clear_lst}

\* Until 'exit' is confirmed the file changes through 'clear' only.
FileWrittenAtExitOnly ==
    [][(r_pc' = "menu" /\ typed'[Len(typed')].o # "clear") => ini_file' = ini_file]_vars

\* At exit the file holds, for an option that was typed, the value entered
\* last.
LastEntryWins ==
    r_pc = "done" =>
        \A o \in DOMAIN OptionProperty :
            EntriesOf(o) # {} => ini_file[OptionProperty[o]] = typed[SetMax(EntriesOf(o))].value

\* C30: values typed for the options 1-12 reach the file only when 'exit'
\* is confirmed with 'y'; a later entry for an option replaces the earlier
\* one; and after a 'clear' every user-specific property that was not
\* entered again after the last 'clear' is empty in the file at exit.
C30_SetupWritesAtExitAndClears ==
    /\ FileWrittenAtExitOnly
    /\ []LastEntryWins
    /\ [](r_pc = "done" =>
            \A o \in UserSpecificOptions :
                (/\ EntriesOf("clear") # {}
                 /\ \A i \in EntriesOf(o) : i < SetMax(EntriesOf("clear"))) =>
                    ini_file[OptionProperty[o]] = "")

====
